---- MODULE Spec2Model ----
(***************************************************************************)
(* gh-actionarmor: the reference parser, the policy parameter set, the     *)
(* per-reference rule chain (lintJobUses) and the concurrent lint pipeline *)
(* (LintWorkflowContext, fanIn, LintWorkflowFilesContext).                 *)
(*                                                                         *)
(* A Go string is a sequence of one-character strings, so that Split,      *)
(* TrimSpace, HasPrefix and len() are computed as the code computes them.  *)
(* Error kinds and Go error identities, on which the code performs no      *)
(* string operation, are TLA+ strings.                                     *)
(***************************************************************************)
EXTENDS Integers, Sequences, FiniteSets, TLC

(***************************************************************************)
(* String literals of the source and of the inputs.                        *)
(***************************************************************************)
\* './.github/workflows/'
str_localWorkflowPrefix ==
    <<".","/",".","g","i","t","h","u","b","/","w","o","r","k","f","l","o","w","s","/">>
\* 'actions'
str_actions ==
    <<"a","c","t","i","o","n","s">>
\* 'cli'
str_cli ==
    <<"c","l","i">>
\* 'github'
str_github ==
    <<"g","i","t","h","u","b">>
\* 'docker/login-action'
str_dockerLogin ==
    <<"d","o","c","k","e","r","/","l","o","g","i","n","-","a","c","t","i","o","n">>
\* 'google-github-actions/auth'
str_googleAuth ==
    <<"g","o","o","g","l","e","-","g","i","t","h","u","b","-","a","c","t","i","o","n","s","/",
      "a","u","t","h">>
\* 'google-github-actions/setup-gcloud'
str_googleSetupGcloud ==
    <<"g","o","o","g","l","e","-","g","i","t","h","u","b","-","a","c","t","i","o","n","s","/",
      "s","e","t","u","p","-","g","c","l","o","u","d">>
\* 'slackapi/slack-github-action'
str_slackAction ==
    <<"s","l","a","c","k","a","p","i","/","s","l","a","c","k","-","g","i","t","h","u","b","-",
      "a","c","t","i","o","n">>
\* 'Could not resolve to'
str_couldNotResolveTo ==
    <<"C","o","u","l","d"," ","n","o","t"," ","r","e","s","o","l","v","e"," ","t","o">>
\* "unexpected 'uses' value: "
fmt_unexpectedUses ==
    <<"u","n","e","x","p","e","c","t","e","d"," ","'","u","s","e","s","'"," ","v","a","l","u",
      "e",":"," ">>
\* 'invalid uses value: expected=owner/repo, actual='
fmt_expectedOwnerRepo ==
    <<"i","n","v","a","l","i","d"," ","u","s","e","s"," ","v","a","l","u","e",":"," ","e","x",
      "p","e","c","t","e","d","=","o","w","n","e","r","/","r","e","p","o",","," ","a","c","t",
      "u","a","l","=">>
\* 'invalid uses value: '
fmt_invalidUsesValue ==
    <<"i","n","v","a","l","i","d"," ","u","s","e","s"," ","v","a","l","u","e",":"," ">>
\* 'line:'
fmt_line ==
    <<"l","i","n","e",":">>
\* ',col:'
fmt_col ==
    <<",","c","o","l",":">>
\* 'failed to get relative path: '
fmt_relPathFailed ==
    <<"f","a","i","l","e","d"," ","t","o"," ","g","e","t"," ","r","e","l","a","t","i","v","e",
      " ","p","a","t","h",":"," ">>
\* 'failed to resolve git tags from sha: '
fmt_resolveFromSha ==
    <<"f","a","i","l","e","d"," ","t","o"," ","r","e","s","o","l","v","e"," ","g","i","t"," ",
      "t","a","g","s"," ","f","r","o","m"," ","s","h","a",":"," ">>
\* 'failed to resolve git tag: '
fmt_resolveTag ==
    <<"f","a","i","l","e","d"," ","t","o"," ","r","e","s","o","l","v","e"," ","g","i","t"," ",
      "t","a","g",":"," ">>
\* 'failed to resolve git tags: '
fmt_resolveTags ==
    <<"f","a","i","l","e","d"," ","t","o"," ","r","e","s","o","l","v","e"," ","g","i","t"," ",
      "t","a","g","s",":"," ">>
\* 'failed to resolve git tags from a ref: repo='
fmt_resolveFromRef ==
    <<"f","a","i","l","e","d"," ","t","o"," ","r","e","s","o","l","v","e"," ","g","i","t"," ",
      "t","a","g","s"," ","f","r","o","m"," ","a"," ","r","e","f",":"," ","r","e","p","o","=">>
\* ', ref='
fmt_ref ==
    <<","," ","r","e","f","=">>
\* ', error='
fmt_error ==
    <<","," ","e","r","r","o","r","=">>
\* 'failed to check if the action is archived: '
fmt_archivedCheckFailed ==
    <<"f","a","i","l","e","d"," ","t","o"," ","c","h","e","c","k"," ","i","f"," ","t","h","e",
      " ","a","c","t","i","o","n"," ","i","s"," ","a","r","c","h","i","v","e","d",":"," ">>
\* 'archived action found: repo='
fmt_archivedFound ==
    <<"a","r","c","h","i","v","e","d"," ","a","c","t","i","o","n"," ","f","o","u","n","d",":",
      " ","r","e","p","o","=">>
\* ', archived-at='
fmt_archivedAt ==
    <<","," ","a","r","c","h","i","v","e","d","-","a","t","=">>
\* 'failed to check if the owner is verified: '
fmt_ownerCheckFailed ==
    <<"f","a","i","l","e","d"," ","t","o"," ","c","h","e","c","k"," ","i","f"," ","t","h","e",
      " ","o","w","n","e","r"," ","i","s"," ","v","e","r","i","f","i","e","d",":"," ">>
\* 'failed to execute a query: '
fmt_queryFailed ==
    <<"f","a","i","l","e","d"," ","t","o"," ","e","x","e","c","u","t","e"," ","a"," ","q","u",
      "e","r","y",":"," ">>
\* 'organization not found: '
fmt_orgNotFound ==
    <<"o","r","g","a","n","i","z","a","t","i","o","n"," ","n","o","t"," ","f","o","u","n","d",
      ":"," ">>
\* 'organization is not verified: '
fmt_orgNotVerified ==
    <<"o","r","g","a","n","i","z","a","t","i","o","n"," ","i","s"," ","n","o","t"," ","v","e",
      "r","i","f","i","e","d",":"," ">>
\* 'invalid ref value: action='
fmt_invalidRefAction ==
    <<"i","n","v","a","l","i","d"," ","r","e","f"," ","v","a","l","u","e",":"," ","a","c","t",
      "i","o","n","=">>
\* ', sha='
fmt_sha ==
    <<","," ","s","h","a","=">>
\* '), allowlist='
fmt_allowlist ==
    <<")",","," ","a","l","l","o","w","l","i","s","t","=">>
\* ', expected=SHA, actual='
fmt_expectedSHA ==
    <<","," ","e","x","p","e","c","t","e","d","=","S","H","A",","," ","a","c","t","u","a","l",
      "=">>
\* ', '
str_commaSpace ==
    <<","," ">>
\* ': '
str_colonSpace ==
    <<":"," ">>
\* '...'
str_ellipsis ==
    <<".",".",".">>
\* 'expected=SHA, actual='
str_expectedSHAActual ==
    <<"e","x","p","e","c","t","e","d","=","S","H","A",","," ","a","c","t","u","a","l","=">>
\* 'actions/checkout@v4'
uses_checkout ==
    <<"a","c","t","i","o","n","s","/","c","h","e","c","k","o","u","t","@","v","4">>
\* 'bufbuild/buf-action@v1.0.2'
uses_bufAction ==
    <<"b","u","f","b","u","i","l","d","/","b","u","f","-","a","c","t","i","o","n","@","v","1",
      ".","0",".","2">>
\* 'google-github-actions/auth@v2'
uses_gauth ==
    <<"g","o","o","g","l","e","-","g","i","t","h","u","b","-","a","c","t","i","o","n","s","/",
      "a","u","t","h","@","v","2">>
\* 'google-github-actions/setup-gcloud@v2'
uses_gcloud ==
    <<"g","o","o","g","l","e","-","g","i","t","h","u","b","-","a","c","t","i","o","n","s","/",
      "s","e","t","u","p","-","g","c","l","o","u","d","@","v","2">>
\* 'tj-actions/changed-files@1234567890123456789012345678901234567890'
uses_changedFilesBadSha ==
    <<"t","j","-","a","c","t","i","o","n","s","/","c","h","a","n","g","e","d","-","f","i","l",
      "e","s","@","1","2","3","4","5","6","7","8","9","0","1","2","3","4","5","6","7","8","9",
      "0","1","2","3","4","5","6","7","8","9","0","1","2","3","4","5","6","7","8","9","0">>
\* 'tj-actions/changed-files@d6e91a2266cdb9d62096cebf1e8546899c6aa18f'
uses_changedFilesSha ==
    <<"t","j","-","a","c","t","i","o","n","s","/","c","h","a","n","g","e","d","-","f","i","l",
      "e","s","@","d","6","e","9","1","a","2","2","6","6","c","d","b","9","d","6","2","0","9",
      "6","c","e","b","f","1","e","8","5","4","6","8","9","9","c","6","a","a","1","8","f">>
\* 'o/r/sub@d6e91a2266cdb9d62096cebf1e8546899c6aa18f'
uses_subPathSha ==
    <<"o","/","r","/","s","u","b","@","d","6","e","9","1","a","2","2","6","6","c","d","b","9",
      "d","6","2","0","9","6","c","e","b","f","1","e","8","5","4","6","8","9","9","c","6","a",
      "a","1","8","f">>
\* './.github/workflows/build.yml@main'
uses_localWorkflow ==
    <<".","/",".","g","i","t","h","u","b","/","w","o","r","k","f","l","o","w","s","/","b","u",
      "i","l","d",".","y","m","l","@","m","a","i","n">>
\* './action'
uses_localAction ==
    <<".","/","a","c","t","i","o","n">>
\* 'o/r@v1@v2'
uses_twoAt ==
    <<"o","/","r","@","v","1","@","v","2">>
\* 'checkout@v4'
uses_noSlash ==
    <<"c","h","e","c","k","o","u","t","@","v","4">>
\* ' o/r@v1'
uses_padded ==
    <<" ","o","/","r","@","v","1">>
\* 'd6e91a2266cdb9d62096cebf1e8546899c6aa18f'
sha_known ==
    <<"d","6","e","9","1","a","2","2","6","6","c","d","b","9","d","6","2","0","9","6","c","e",
      "b","f","1","e","8","5","4","6","8","9","9","c","6","a","a","1","8","f">>
\* '1234567890123456789012345678901234567890'
sha_unknown ==
    <<"1","2","3","4","5","6","7","8","9","0","1","2","3","4","5","6","7","8","9","0","1","2",
      "3","4","5","6","7","8","9","0","1","2","3","4","5","6","7","8","9","0">>
\* '7ec5c2b0c6cdda6e8bbb49444bc797dd33d74dd8'
sha_other ==
    <<"7","e","c","5","c","2","b","0","c","6","c","d","d","a","6","e","8","b","b","b","4","9",
      "4","4","4","b","c","7","9","7","d","d","3","3","d","7","4","d","d","8">>
\* 'tj-actions/changed-files'
str_changedFiles ==
    <<"t","j","-","a","c","t","i","o","n","s","/","c","h","a","n","g","e","d","-","f","i","l",
      "e","s">>
\* 'google-github-actions'
str_googleGithubActions ==
    <<"g","o","o","g","l","e","-","g","i","t","h","u","b","-","a","c","t","i","o","n","s">>
\* 'v45'
str_v45 ==
    <<"v","4","5">>
\* '2021-03-04'
str_date ==
    <<"2","0","2","1","-","0","3","-","0","4">>
\* ' is neither a commit nor blob'
str_notCommitNorBlob ==
    <<" ","i","s"," ","n","e","i","t","h","e","r"," ","a"," ","c","o","m","m","i","t"," ","n",
      "o","r"," ","b","l","o","b">>
\* 'tag not found'
str_tagNotFound ==
    <<"t","a","g"," ","n","o","t"," ","f","o","u","n","d">>
\* 'network is unreachable'
str_networkDown ==
    <<"n","e","t","w","o","r","k"," ","i","s"," ","u","n","r","e","a","c","h","a","b","l","e">>
\* 'Could not resolve to a User'
str_couldNotResolveUser ==
    <<"C","o","u","l","d"," ","n","o","t"," ","r","e","s","o","l","v","e"," ","t","o"," ","a",
      " ","U","s","e","r">>
\* 'pinned for the release\n of v45'
str_commentLong ==
    <<"p","i","n","n","e","d"," ","f","o","r"," ","t","h","e"," ","r","e","l","e","a","s","e",
      "\n"," ","o","f"," ","v","4","5">>
\* "Rel: can't make "
fmt_relCant ==
    <<"R","e","l",":"," ","c","a","n","'","t"," ","m","a","k","e"," ">>
\* ' relative to '
fmt_relativeTo ==
    <<" ","r","e","l","a","t","i","v","e"," ","t","o"," ">>
\* 'failed to get relative path: root='
fmt_relRoot ==
    <<"f","a","i","l","e","d"," ","t","o"," ","g","e","t"," ","r","e","l","a","t","i","v","e",
      " ","p","a","t","h",":"," ","r","o","o","t","=">>
\* '..'
str_dotdot ==
    <<".",".">>
\* '.'
str_dot ==
    <<".">>
\* '/repo'
path_root ==
    <<"/","r","e","p","o">>
\* '/repo/.github/workflows/ci.yaml'
path_wf1 ==
    <<"/","r","e","p","o","/",".","g","i","t","h","u","b","/","w","o","r","k","f","l","o","w",
      "s","/","c","i",".","y","a","m","l">>
\* 'owner/repo'
str_ownerRepo ==
    <<"o","w","n","e","r","/","r","e","p","o">>
\* 'failed to parse workflow: path='
fmt_parseFailed ==
    <<"f","a","i","l","e","d"," ","t","o"," ","p","a","r","s","e"," ","w","o","r","k","f","l",
      "o","w",":"," ","p","a","t","h","=">>
\* ', msg='
fmt_msg ==
    <<","," ","m","s","g","=">>
\* 'failed to read a workflow file: path='
fmt_readFailed ==
    <<"f","a","i","l","e","d"," ","t","o"," ","r","e","a","d"," ","a"," ","w","o","r","k","f",
      "l","o","w"," ","f","i","l","e",":"," ","p","a","t","h","=">>
\* 'no such file or directory'
str_noSuchFile ==
    <<"n","o"," ","s","u","c","h"," ","f","i","l","e"," ","o","r"," ","d","i","r","e","c","t",
      "o","r","y">>
\* 'could not parse as YAML'
str_yamlError ==
    <<"c","o","u","l","d"," ","n","o","t"," ","p","a","r","s","e"," ","a","s"," ","Y","A","M",
      "L">>
\* 'context canceled'
str_ctxCanceled ==
    <<"c","o","n","t","e","x","t"," ","c","a","n","c","e","l","e","d">>
\* '/repo/.github/workflows/w'
path_wfPrefix ==
    <<"/","r","e","p","o","/",".","g","i","t","h","u","b","/","w","o","r","k","f","l","o","w",
      "s","/","w">>
\* '.yaml'
str_yamlExt ==
    <<".","y","a","m","l">>

(***************************************************************************)
(* The string functions of the Go standard library that the code calls.    *)
(***************************************************************************)
IsSpace(c) == c \in {" ", "\t", "\n", "\r"}

RECURSIVE TrimLeft(_)
TrimLeft(s) ==
    IF s # <<>> /\ IsSpace(Head(s)) THEN TrimLeft(Tail(s)) ELSE s

RECURSIVE TrimRight(_)
TrimRight(s) ==
    IF s # <<>> /\ IsSpace(s[Len(s)]) THEN TrimRight(SubSeq(s, 1, Len(s) - 1)) ELSE s

\* strings.TrimSpace
TrimSpace(s) == TrimRight(TrimLeft(s))

\* strings.Split(s, sep) for a separator of one character
RECURSIVE Split(_, _)
Split(s, sep) ==
    IF \A i \in 1..Len(s) : s[i] # sep
    THEN <<s>>
    ELSE LET i == CHOOSE k \in 1..Len(s) :
                      s[k] = sep /\ \A j \in 1..(k - 1) : s[j] # sep
         IN  <<SubSeq(s, 1, i - 1)>> \o Split(SubSeq(s, i + 1, Len(s)), sep)

\* strings.Join
RECURSIVE Join(_, _)
Join(list, sep) ==
    IF list = <<>> THEN <<>>
    ELSE IF Len(list) = 1 THEN list[1]
    ELSE list[1] \o sep \o Join(Tail(list), sep)

\* strings.HasPrefix
HasPrefix(s, prefix) ==
    Len(s) >= Len(prefix) /\ SubSeq(s, 1, Len(prefix)) = prefix

\* strings.Contains
Contains(s, sub) ==
    \E i \in 0..(Len(s) - Len(sub)) : SubSeq(s, i + 1, i + Len(sub)) = sub

\* slices.Contains
SliceContains(list, x) == \E i \in 1..Len(list) : list[i] = x

Digits == <<"0", "1", "2", "3", "4", "5", "6", "7", "8", "9">>

\* the %d verb of fmt for a non-negative integer
RECURSIVE Itoa(_)
Itoa(n) ==
    IF n < 10 THEN <<Digits[n + 1]>>
    ELSE Itoa(n \div 10) \o <<Digits[(n % 10) + 1]>>

\* reNewLines.ReplaceAllString(s, " "): every maximal run of white space
\* becomes one space
RECURSIVE replaceNewlines(_)
replaceNewlines(s) ==
    IF s = <<>> THEN <<>>
    ELSE IF IsSpace(Head(s))
         THEN <<" ">> \o replaceNewlines(TrimLeft(s))
         ELSE <<Head(s)>> \o replaceNewlines(Tail(s))

maxCommentLen == 20

truncateString(s, len) ==
    IF Len(s) <= len THEN s ELSE SubSeq(s, 1, len) \o str_ellipsis

HexDigits ==
    {"0", "1", "2", "3", "4", "5", "6", "7", "8", "9",
     "a", "b", "c", "d", "e", "f", "A", "B", "C", "D", "E", "F"}

ShaLen == 40

\* resolver.IsSHA: a string of 40 hexadecimal digits
IsSHA(s) == Len(s) = ShaLen /\ \A i \in 1..Len(s) : s[i] \in HexDigits

shortenHash(hash) == IF ~IsSHA(hash) THEN hash ELSE SubSeq(hash, 1, 7)

(***************************************************************************)
(* The reference parser (pkg/linter/parser.go).                            *)
(***************************************************************************)
NilAction == [nil |-> TRUE]

RepoID(a) == a.Owner \o <<"/">> \o a.Name

Repository(a) == [Owner |-> a.Owner, Name |-> a.Name]

ActionString(a) == a.Owner \o <<"/">> \o a.Name \o <<"@">> \o a.Ref

IsLocalReusableWorkflows(a) == HasPrefix(a.ID, str_localWorkflowPrefix)

IsPinnedBySHA(a) == IsSHA(a.Ref)

\* a parser that takes a value without "@" for a reference without ref
ParseActionUsesLenient(usesIn) ==
    LET uses  == TrimSpace(usesIn)
        items == Split(uses, "@")
        a     == Split(items[1], "/")
    IN  IF Len(items) > 2 \/ Len(a) < 2
        THEN [action |-> NilAction, failed |-> TRUE, err |-> fmt_unexpectedUses \o uses]
        ELSE [action |-> [ID |-> items[1], Owner |-> a[1], Name |-> a[2],
                          Ref |-> IF Len(items) = 2 THEN items[2] ELSE <<>>],
              failed |-> FALSE, err |-> <<>>]

\* a parser that does not trim the value
ParseActionUsesUntrimmed(usesIn) ==
    LET items == Split(usesIn, "@")
        a     == Split(items[1], "/")
    IN  IF Len(items) # 2
        THEN [action |-> NilAction, failed |-> TRUE, err |-> fmt_unexpectedUses \o usesIn]
        ELSE IF Len(a) < 2
        THEN [action |-> NilAction, failed |-> TRUE,
              err |-> fmt_expectedOwnerRepo \o items[1]]
        ELSE [action |-> [ID |-> items[1], Owner |-> a[1], Name |-> a[2],
                          Ref |-> items[2]],
              failed |-> FALSE, err |-> <<>>]

\* returns the pair (*Action, error) as [action, failed, err]
ParseActionUses(usesIn) ==
    LET uses  == TrimSpace(usesIn)
        items == Split(uses, "@")
    IN  IF Len(items) # 2
        THEN [action |-> NilAction, failed |-> TRUE, err |-> fmt_unexpectedUses \o uses]
        ELSE LET actionID == items[1]
                 ref      == items[2]
                 a        == Split(actionID, "/")
             IN  IF Len(a) < 2
                 THEN [action |-> NilAction, failed |-> TRUE,
                       err |-> fmt_expectedOwnerRepo \o actionID]
                 ELSE [action |-> [ID |-> actionID, Owner |-> a[1],
                                   Name |-> a[2], Ref |-> ref],
                       failed |-> FALSE, err |-> <<>>]

KindArchivedActionUsed == "archived action action is being used"
KindRuntimeError == "runtime error"
KindUnexpectedValue == "unexpected value"
KindUnpinned == "must be pinned by hash"

OfficialCreators == <<str_actions, str_cli, str_github>>

actionsByVerifiedCreators ==
    <<str_dockerLogin, str_googleAuth, str_googleSetupGcloud, str_slackAction>>

(***************************************************************************)
(* The policy parameter set (WorkflowLintParams) and its options.          *)
(* A *bool is a sequence of at most one boolean (<<>> is the nil pointer), *)
(* a slice is [nil, items] and a map is [nil, m], so that "unset" and      *)
(* "empty" stay apart as they do in Go.                                    *)
(***************************************************************************)
DefaultExcludeOfficialActions == TRUE
DefaultExcludeVerifiedCreators == FALSE
DefaultAllowOnlyAllowlistedHash == FALSE
DefaultAllowArchivedRepo == TRUE
DefaultEnforcePinHash == TRUE
DefaultEnforceVerifiedOrg == FALSE

NilPtr == <<>>
boolPtr(v) == <<v>>
Deref(p) == p[1]

NilSlice == [nil |-> TRUE, items |-> <<>>]
MakeSlice(items) == [nil |-> FALSE, items |-> items]
NilMap == [nil |-> TRUE, m |-> <<>>]
MakeMap(m) == [nil |-> FALSE, m |-> m]

\* the zero value of the struct (var p WorkflowLintParams)
ZeroWorkflowLintParams ==
    [ExcludeOfficialActions      |-> NilPtr,
     ExcludeVerifiedCreators     |-> NilPtr,
     AllowOnlyAllowlistedHash    |-> NilPtr,
     AllowArchivedRepo           |-> NilPtr,
     EnforcePinHash              |-> NilPtr,
     EnforceVerifiedOrganization |-> NilPtr,
     CreatorAllowlist            |-> NilSlice,
     ActionAllowlist             |-> NilSlice,
     HashAllowlist               |-> NilMap]

WithExcludeOfficialActions(v) == [opt |-> "ExcludeOfficialActions", v |-> v]
WithExcludeVerifiedCreators(v) == [opt |-> "ExcludeVerifiedCreators", v |-> v]
WithAllowOnlyAllowlistedHash(v) == [opt |-> "AllowOnlyAllowlistedHash", v |-> v]
WithAllowArchivedRepo(v) == [opt |-> "AllowArchivedRepo", v |-> v]
WithEnforcePinHash(v) == [opt |-> "EnforcePinHash", v |-> v]
WithEnforceVerifiedOrganization(v) == [opt |-> "EnforceVerifiedOrganization", v |-> v]
WithCreatorAllowlist(v) == [opt |-> "CreatorAllowlist", v |-> v]
WithActionAllowlist(v) == [opt |-> "ActionAllowlist", v |-> v]
WithHashAllowlist(v) == [opt |-> "HashAllowlist", v |-> v]

\* an append that does not look for duplicates
AppendAll(slice, v) == IF v = <<>> THEN slice ELSE MakeSlice(slice.items \o v)

\* for _, x := range v { if !slices.Contains(list, x) { list = append(list, x) } }
RECURSIVE AppendMissing(_, _)
AppendMissing(slice, v) ==
    IF v = <<>> THEN slice
    ELSE IF SliceContains(slice.items, Head(v))
         THEN AppendMissing(slice, Tail(v))
         ELSE AppendMissing(MakeSlice(Append(slice.items, Head(v))), Tail(v))

\* opt(&p): the body of the closure each With... function returns
ApplyOption(p, o) ==
    CASE o.opt = "ExcludeOfficialActions" ->
            [p EXCEPT !.ExcludeOfficialActions = boolPtr(o.v)]
      [] o.opt = "ExcludeVerifiedCreators" ->
            [p EXCEPT !.ExcludeVerifiedCreators = boolPtr(o.v)]
      [] o.opt = "AllowOnlyAllowlistedHash" ->
            [p EXCEPT !.AllowOnlyAllowlistedHash = boolPtr(o.v)]
      [] o.opt = "AllowArchivedRepo" ->
            [p EXCEPT !.AllowArchivedRepo = boolPtr(o.v)]
      [] o.opt = "EnforcePinHash" ->
            [p EXCEPT !.EnforcePinHash = boolPtr(o.v)]
      [] o.opt = "EnforceVerifiedOrganization" ->
            [p EXCEPT !.EnforceVerifiedOrganization = boolPtr(o.v)]
      [] o.opt = "CreatorAllowlist" ->
            [p EXCEPT !.CreatorAllowlist = AppendMissing(p.CreatorAllowlist, o.v)]
      [] o.opt = "ActionAllowlist" ->
            [p EXCEPT !.ActionAllowlist = AppendMissing(p.ActionAllowlist, o.v)]
      [] o.opt = "HashAllowlist" ->
            [p EXCEPT !.HashAllowlist = o.v]

RECURSIVE ApplyOptions(_, _)
ApplyOptions(p, opts) ==
    IF opts = <<>> THEN p
    ELSE ApplyOptions(ApplyOption(p, Head(opts)), Tail(opts))

\* a default that is false for every flag
OrDefaultFalse(ptr, default) == IF ptr = NilPtr THEN boolPtr(FALSE) ELSE ptr

OrDefault(ptr, default) == IF ptr = NilPtr THEN boolPtr(default) ELSE ptr

NewWorkflowLintParams(opts) ==
    LET p == ApplyOptions(ZeroWorkflowLintParams, opts)
    IN  [ExcludeOfficialActions |->
            OrDefault(p.ExcludeOfficialActions, DefaultExcludeOfficialActions),
         ExcludeVerifiedCreators |->
            OrDefault(p.ExcludeVerifiedCreators, DefaultExcludeVerifiedCreators),
         AllowOnlyAllowlistedHash |->
            OrDefault(p.AllowOnlyAllowlistedHash, DefaultAllowOnlyAllowlistedHash),
         AllowArchivedRepo |->
            OrDefault(p.AllowArchivedRepo, DefaultAllowArchivedRepo),
         EnforcePinHash |->
            OrDefault(p.EnforcePinHash, DefaultEnforcePinHash),
         EnforceVerifiedOrganization |->
            OrDefault(p.EnforceVerifiedOrganization, DefaultEnforceVerifiedOrg),
         CreatorAllowlist |->
            IF p.CreatorAllowlist.nil THEN MakeSlice(<<>>) ELSE p.CreatorAllowlist,
         ActionAllowlist |->
            IF p.ActionAllowlist.nil THEN MakeSlice(<<>>) ELSE p.ActionAllowlist,
         HashAllowlist |->
            IF p.HashAllowlist.nil THEN MakeMap(<<>>) ELSE p.HashAllowlist]

\* a lookup that tries the repo ID first
GetHashAllowlistRepoFirst(p, action) ==
    IF RepoID(action) \in DOMAIN p.HashAllowlist.m
    THEN p.HashAllowlist.m[RepoID(action)]
    ELSE IF action.ID \in DOMAIN p.HashAllowlist.m
         THEN p.HashAllowlist.m[action.ID]
         ELSE NilSlice

\* the nil slice when neither the action ID nor the repo ID is a key
GetHashAllowlist(p, action) ==
    IF action.ID \in DOMAIN p.HashAllowlist.m
    THEN p.HashAllowlist.m[action.ID]
    ELSE IF RepoID(action) \in DOMAIN p.HashAllowlist.m
         THEN p.HashAllowlist.m[RepoID(action)]
         ELSE NilSlice

(***************************************************************************)
(* WorkflowLintInfo and the position types.                                *)
(***************************************************************************)
NilProject == [nil |-> TRUE]
NilPos == [nilPos |-> TRUE]
NilUses == [nilUses |-> TRUE]

\* actionlint.Pos.String
PosString(pos) == fmt_line \o Itoa(pos.Line) \o fmt_col \o Itoa(pos.Col)

IsAbs(path) == path # <<>> /\ path[1] = "/"

\* the non-empty "/"-separated components of a path
Components(path) == SelectSeq(Split(path, "/"), LAMBDA c : c # <<>>)

RECURSIVE CommonLen(_, _)
CommonLen(a, b) ==
    IF a # <<>> /\ b # <<>> /\ Head(a) = Head(b)
    THEN 1 + CommonLen(Tail(a), Tail(b))
    ELSE 0

\* filepath.Rel on clean slash-separated paths without ".." components
FilepathRel(basepath, targpath) ==
    IF IsAbs(basepath) # IsAbs(targpath)
    THEN [failed |-> TRUE, path |-> <<>>,
          err |-> fmt_relCant \o targpath \o fmt_relativeTo \o basepath]
    ELSE LET b    == Components(basepath)
             t    == Components(targpath)
             n    == CommonLen(b, t)
             rest == [i \in 1..(Len(b) - n) |-> str_dotdot] \o SubSeq(t, n + 1, Len(t))
         IN  [failed |-> FALSE, err |-> <<>>,
              path |-> IF rest = <<>> THEN str_dot ELSE Join(rest, <<"/">>)]

\* WorkflowLintInfo.RelPath
RelPath(wf) ==
    IF wf.Project = NilProject
    THEN [failed |-> FALSE, path |-> wf.FilePath, err |-> <<>>]
    ELSE LET root == wf.Project.RootDir
             r    == FilepathRel(root, wf.FilePath)
         IN  IF r.failed
             THEN [failed |-> TRUE, path |-> <<>>,
                   err |-> fmt_relRoot \o root \o fmt_error \o r.err]
             ELSE r

\* a nil *Error
Nil == [nil |-> TRUE]

\* what dereferencing the nil pos does to the calling goroutine
PanicNilDeref == [panic |-> "invalid memory address or nil pointer dereference"]

newLintError(msg, relPath, wfLintInfo, pos, kind) ==
    IF pos = NilPos
    THEN PanicNilDeref
    ELSE [Message             |-> msg,
          Filepath            |-> relPath,
          Line                |-> pos.Line,
          Column              |-> pos.Col,
          Kind                |-> kind,
          WorkflowAbsFilePath |-> wfLintInfo.FilePath,
          Project             |-> wfLintInfo.Project]

(***************************************************************************)
(* The remote collaborators.  rem is the state of the remote services as   *)
(* one evaluation sees it:                                                 *)
(*   rem.archived  the answer of the repository(owner, name) query         *)
(*   rem.user, rem.org, rem.verified  the answers of the three login       *)
(*                 queries of checkVerifiedOrg                             *)
(*   rem.fromHash  the resolver's answer for each SHA it knows             *)
(*   rem.fromTag   the resolver's answer for a tag                         *)
(* Every answer may be a failure (failed, msg).  A call is recorded as     *)
(* [op, arg] in the order it is made.                                      *)
(***************************************************************************)
Call(op, arg) == [op |-> op, arg |-> arg]

\* a query that loses the client's error
queryIgnoresError(answer) == [answer EXCEPT !.failed = FALSE]

\* query[T]: wraps the client's error
query(answer) ==
    IF answer.failed
    THEN [answer EXCEPT !.msg = fmt_queryFailed \o answer.msg]
    ELSE answer

\* resolver.ResolveFromHashContext
ResolveFromHashContext(rem, repo, sha) ==
    IF sha \in DOMAIN rem.fromHash
    THEN rem.fromHash[sha]
    ELSE [failed |-> TRUE, msg |-> sha \o str_notCommitNorBlob, tags |-> <<>>]

\* resolver.ResolveFromTagContext
ResolveFromTagContext(rem, repo, tag) ==
    IF rem.fromTag.failed
    THEN [failed |-> TRUE, msg |-> rem.fromTag.msg, Tag |-> <<>>, CommitHash |-> <<>>]
    ELSE [failed |-> FALSE, msg |-> <<>>, Tag |-> tag,
          CommitHash |-> rem.fromTag.CommitHash]

resolveGitTagNamesFromSha(rem, repo, ref) ==
    LET gitTags == ResolveFromHashContext(rem, repo, ref)
    IN  IF gitTags.failed
        THEN [failed |-> TRUE, tagNames |-> <<>>,
              err |-> fmt_resolveFromRef \o repo.Owner \o <<"/">> \o repo.Name
                      \o fmt_ref \o ref \o fmt_error \o gitTags.msg]
        ELSE [failed |-> FALSE, tagNames |-> gitTags.tags, err |-> <<>>]

isArchivedAction(rem, a) == query(rem.archived)

\* a verified-creator table that knows nobody
isVerifiedCreatorNobody(a) == FALSE

isVerifiedCreator(a) == SliceContains(actionsByVerifiedCreators, RepoID(a))

\* an organization check that asks nothing and accepts every login
checkVerifiedOrgSkips(login, params, rem) ==
    [failed |-> FALSE, err |-> <<>>, calls |-> <<>>]

\* returns [failed, err, calls]: the error and the queries made
checkVerifiedOrg(login, params, rem) ==
    IF params.EnforceVerifiedOrganization = NilPtr
       \/ ~Deref(params.EnforceVerifiedOrganization)
    THEN [failed |-> FALSE, err |-> <<>>, calls |-> <<>>]
    ELSE
    LET queryLoginUser == query(rem.user)
        c1 == <<Call("user", login)>>
    IN
    IF queryLoginUser.failed /\ ~Contains(queryLoginUser.msg, str_couldNotResolveTo)
    THEN [failed |-> TRUE, err |-> queryLoginUser.msg, calls |-> c1]
    ELSE IF ~queryLoginUser.failed /\ queryLoginUser.found
    THEN [failed |-> FALSE, err |-> <<>>, calls |-> c1]
    ELSE
    LET queryLoginOrg == query(rem.org)
        c2 == Append(c1, Call("organization", login))
    IN
    IF queryLoginOrg.failed
    THEN [failed |-> TRUE, err |-> fmt_queryFailed \o queryLoginOrg.msg, calls |-> c2]
    ELSE IF ~queryLoginOrg.found
    THEN [failed |-> TRUE, err |-> fmt_orgNotFound \o login, calls |-> c2]
    ELSE
    LET queryIsVerified == query(rem.verified)
        c3 == Append(c2, Call("isVerified", login))
    IN
    IF queryIsVerified.failed
    THEN [failed |-> TRUE, err |-> fmt_queryFailed \o queryIsVerified.msg, calls |-> c3]
    ELSE IF ~queryIsVerified.isVerified
    THEN [failed |-> TRUE, err |-> fmt_orgNotVerified \o login, calls |-> c3]
    ELSE [failed |-> FALSE, err |-> <<>>, calls |-> c3]

\* an allowlist check that knows the creator allowlist only
isAllowlistedCreatorOnly(action, params) ==
    IF SliceContains(params.CreatorAllowlist.items, action.Owner)
    THEN [allowlisted |-> TRUE, reason |-> "allowlisted creator"]
    ELSE [allowlisted |-> FALSE, reason |-> "not allowlisted"]

\* returns (bool, reason)
isAllowlisted(action, params) ==
    IF SliceContains(params.CreatorAllowlist.items, action.Owner)
    THEN [allowlisted |-> TRUE, reason |-> "allowlisted creator"]
    ELSE IF SliceContains(params.ActionAllowlist.items, RepoID(action))
    THEN [allowlisted |-> TRUE, reason |-> "allowlisted action"]
    ELSE IF ~IsPinnedBySHA(action)
    THEN [allowlisted |-> FALSE, reason |-> "not allowlisted"]
    ELSE LET allowlist == GetHashAllowlist(params, action).items
         IN  IF \E i \in 1..Len(allowlist) : allowlist[i].SHA = action.Ref
             THEN [allowlisted |-> TRUE, reason |-> "pinned by allowlisted hash"]
             ELSE [allowlisted |-> FALSE, reason |-> "not allowlisted"]

(***************************************************************************)
(* The rule chain, lintJobUses.  Every stage returns [err, calls]: the     *)
(* *Error (Nil for ALLOW) and the remote calls made so far.                *)
(***************************************************************************)
Ret(err, calls) == [err |-> err, calls |-> calls]

\* the loop over the allowed entries: the rendered entries, or the first
\* resolver failure
RECURSIVE renderAllowlist(_, _, _, _, _)
renderAllowlist(allowedEntries, action, rem, allowlist, calls) ==
    IF allowedEntries = <<>>
    THEN [failed |-> FALSE, err |-> <<>>, allowlist |-> allowlist, calls |-> calls]
    ELSE
    LET entry   == Head(allowedEntries)
        comment == IF entry.Comment # NilPtr
                   THEN TrimSpace(replaceNewlines(Deref(entry.Comment)))
                   ELSE <<>>
        res     == resolveGitTagNamesFromSha(rem, Repository(action), entry.SHA)
        calls2  == Append(calls, Call("ResolveFromHash", entry.SHA))
    IN
    IF res.failed
    THEN [failed |-> TRUE, err |-> res.err, allowlist |-> allowlist, calls |-> calls2]
    ELSE
    LET entryTagsStr   == Join(res.tagNames, str_commaSpace)
        entryShortSHA  == shortenHash(entry.SHA)
        allowlistEntry ==
            IF comment = <<>>
            THEN entryShortSHA \o <<"(">> \o entryTagsStr \o <<")">>
            ELSE entryShortSHA \o <<"(">> \o entryTagsStr \o str_colonSpace
                 \o truncateString(comment, maxCommentLen) \o <<")">>
    IN  renderAllowlist(Tail(allowedEntries), action, rem,
                        Append(allowlist, allowlistEntry), calls2)

\* a pin rule that reports at the start of the uses value
RefPosAtUses(uses, action) == [Line |-> uses.Pos.Line, Col |-> uses.Pos.Col]

\* the position of the ref inside the uses value
RefPos(uses, action) ==
    [Line |-> uses.Pos.Line, Col |-> uses.Pos.Col + Len(action.ID) + 1]

\* pin rules that allow every reference
lintPinAllows(action, uses, relPath, wfLintInfo, rem, calls) == Ret(Nil, calls)

\* pin rules under which allow-only-allowlisted-hash rejects every ref that
\* is not an allowlisted SHA, refs that are no SHA included
lintPinRejectsTags(action, uses, relPath, wfLintInfo, rem, calls) ==
    IF Deref(wfLintInfo.Params.AllowOnlyAllowlistedHash)
    THEN Ret(newLintError(fmt_invalidRefAction \o action.ID, relPath, wfLintInfo,
                          RefPos(uses, action), "SHA is not allowlisted"), calls)
    ELSE Ret(Nil, calls)

\* the pin rules: a SHA-pinned ref, then a ref that is not a SHA
lintPin(action, uses, relPath, wfLintInfo, rem, calls) ==
    LET params == wfLintInfo.Params
        refPos == RefPos(uses, action)
    IN
    IF IsPinnedBySHA(action)
    THEN
        LET res    == resolveGitTagNamesFromSha(rem, Repository(action), action.Ref)
            calls2 == Append(calls, Call("ResolveFromHash", action.Ref))
        IN
        IF res.failed
        THEN Ret(newLintError(fmt_resolveTags \o res.err,
                              relPath, wfLintInfo, refPos, KindRuntimeError), calls2)
        ELSE
        LET tagsStr      == Join(res.tagNames, str_commaSpace)
            refShortHash == shortenHash(action.Ref)
        IN
        IF Deref(params.AllowOnlyAllowlistedHash)
        THEN
            LET allowedEntries == GetHashAllowlist(wfLintInfo.Params, action).items
                r == renderAllowlist(allowedEntries, action, rem, <<>>, calls2)
            IN
            IF r.failed
            THEN Ret(newLintError(fmt_resolveTags \o r.err,
                                  relPath, wfLintInfo, refPos, KindRuntimeError), r.calls)
            ELSE Ret(newLintError(
                        fmt_invalidRefAction \o action.ID \o fmt_sha \o refShortHash
                        \o <<"(">> \o tagsStr \o fmt_allowlist
                        \o <<"[">> \o Join(r.allowlist, <<" ">>) \o <<"]">>,
                        relPath, wfLintInfo, refPos, "SHA is not allowlisted"), r.calls)
        ELSE Ret(Nil, calls2)
    ELSE
        IF Deref(params.EnforcePinHash)
        THEN Ret(newLintError(
                    fmt_invalidRefAction \o RepoID(action) \o fmt_expectedSHA \o action.Ref,
                    relPath, wfLintInfo, refPos, KindUnpinned), calls)
        ELSE Ret(Nil, calls)

\* the verified-organization rule
lintVerifiedOrg(action, uses, relPath, wfLintInfo, rem, calls) ==
    LET r == checkVerifiedOrg(action.Owner, wfLintInfo.Params, rem)
    IN  IF r.failed
        THEN Ret(newLintError(fmt_ownerCheckFailed \o r.err,
                              relPath, wfLintInfo, uses.Pos, KindRuntimeError),
                 calls \o r.calls)
        ELSE lintPin(action, uses, relPath, wfLintInfo, rem, calls \o r.calls)

\* the archived-repository rule
lintArchived(action, uses, relPath, wfLintInfo, rem, calls) ==
    LET r      == isArchivedAction(rem, action)
        calls2 == Append(calls, Call("isArchived", RepoID(action)))
    IN
    IF r.failed
    THEN Ret(newLintError(fmt_archivedCheckFailed \o r.msg,
                          relPath, wfLintInfo, uses.Pos, KindRuntimeError), calls2)
    ELSE IF r.isArchived /\ ~Deref(wfLintInfo.Params.AllowArchivedRepo)
    THEN Ret(newLintError(
                fmt_archivedFound \o RepoID(action) \o fmt_archivedAt \o r.archivedAt,
                relPath, wfLintInfo, uses.Pos, "archived action is not allowed"), calls2)
    ELSE lintVerifiedOrg(action, uses, relPath, wfLintInfo, rem, calls2)

\* the verified-creator exemption
lintVerifiedCreator(action, uses, relPath, wfLintInfo, rem, calls) ==
    IF Deref(wfLintInfo.Params.ExcludeVerifiedCreators) /\ isVerifiedCreator(action)
    THEN Ret(Nil, calls)
    ELSE lintArchived(action, uses, relPath, wfLintInfo, rem, calls)

\* an allowlist rule that trusts an allowlisted tag without resolving it
lintAllowlistedUnresolved(action, uses, relPath, wfLintInfo, rem) ==
    IF isAllowlisted(action, wfLintInfo.Params).allowlisted
    THEN
        IF IsPinnedBySHA(action)
        THEN
            LET res == resolveGitTagNamesFromSha(rem, Repository(action), action.Ref)
                c   == <<Call("ResolveFromHash", action.Ref)>>
            IN  IF res.failed
                THEN Ret(newLintError(fmt_resolveFromSha \o res.err,
                                      relPath, wfLintInfo, uses.Pos, KindRuntimeError), c)
                ELSE Ret(Nil, c)
        ELSE Ret(Nil, <<>>)
    ELSE lintVerifiedCreator(action, uses, relPath, wfLintInfo, rem, <<>>)

\* the allowlist rule
lintAllowlisted(action, uses, relPath, wfLintInfo, rem) ==
    IF isAllowlisted(action, wfLintInfo.Params).allowlisted
    THEN
        IF IsPinnedBySHA(action)
        THEN
            LET res == resolveGitTagNamesFromSha(rem, Repository(action), action.Ref)
                c   == <<Call("ResolveFromHash", action.Ref)>>
            IN  IF res.failed
                THEN Ret(newLintError(fmt_resolveFromSha \o res.err,
                                      relPath, wfLintInfo, uses.Pos, KindRuntimeError), c)
                ELSE Ret(Nil, c)
        ELSE
            LET gitTag == ResolveFromTagContext(rem, Repository(action), action.Ref)
                c      == <<Call("ResolveFromTag", action.Ref)>>
            IN  IF gitTag.failed
                THEN Ret(newLintError(fmt_resolveTag \o gitTag.msg,
                                      relPath, wfLintInfo, uses.Pos, KindRuntimeError), c)
                ELSE Ret(Nil, c)
    ELSE lintVerifiedCreator(action, uses, relPath, wfLintInfo, rem, <<>>)

\* the exemptions that need no lookup: local reusable workflow, official creator
lintExempt(action, uses, relPath, wfLintInfo, rem) ==
    IF IsLocalReusableWorkflows(action)
    THEN Ret(Nil, <<>>)
    ELSE IF Deref(wfLintInfo.Params.ExcludeOfficialActions)
            /\ SliceContains(OfficialCreators, action.Owner)
    THEN Ret(Nil, <<>>)
    ELSE lintAllowlisted(action, uses, relPath, wfLintInfo, rem)

\* case 2 of the switch: exactly one "@" in the untrimmed value
lintRemoteUses(uses, wfLintInfo, rem) ==
    LET rel == RelPath(wfLintInfo)
    IN
    IF rel.failed
    THEN Ret(newLintError(fmt_relPathFailed \o rel.err,
                          wfLintInfo.FilePath, wfLintInfo, uses.Pos, KindRuntimeError),
             <<>>)
    ELSE
    LET relPath == rel.path
        parsed  == ParseActionUses(uses.Value)
    IN
    IF parsed.failed
    THEN Ret(newLintError(parsed.err, relPath, wfLintInfo, uses.Pos,
                          KindUnexpectedValue), <<>>)
    ELSE lintExempt(parsed.action, uses, relPath, wfLintInfo, rem)

\* a rule chain that hands a value without "@" to the parser
lintJobUsesParsesAll(uses, wfLintInfo, rem) ==
    IF uses = NilUses
    THEN Ret(Nil, <<>>)
    ELSE IF Len(Split(uses.Value, "@")) <= 2
         THEN lintRemoteUses(uses, wfLintInfo, rem)
         ELSE Ret(newLintError(fmt_invalidUsesValue \o PosString(uses.Pos),
                               wfLintInfo.FilePath, wfLintInfo, uses.Pos,
                               KindUnexpectedValue), <<>>)

\* a rule chain that allows a value with more than one "@"
lintJobUsesAllowsOthers(uses, wfLintInfo, rem) ==
    IF uses = NilUses
    THEN Ret(Nil, <<>>)
    ELSE IF Len(Split(uses.Value, "@")) = 2
         THEN lintRemoteUses(uses, wfLintInfo, rem)
         ELSE Ret(Nil, <<>>)

lintJobUses(uses, wfLintInfo, rem) ==
    IF uses = NilUses
    THEN Ret(Nil, <<>>)
    ELSE
    LET items == Split(uses.Value, "@")
    IN  CASE Len(items) = 1 -> Ret(Nil, <<>>)
          [] Len(items) = 2 -> lintRemoteUses(uses, wfLintInfo, rem)
          [] OTHER ->
                Ret(newLintError(fmt_invalidUsesValue \o PosString(uses.Pos),
                                 wfLintInfo.FilePath, wfLintInfo, uses.Pos,
                                 KindUnexpectedValue), <<>>)

(***************************************************************************)
(* Inputs: uses tokens, parameter sets, workflow infos and remote states.  *)
(***************************************************************************)
MaxPos == 2

\* source positions of a uses token (1-based line and column)
PosPool == {[Line |-> n, Col |-> MaxPos + 1 - n] : n \in 1..MaxPos}

UsesValuePool ==
    {uses_checkout, uses_bufAction, uses_gauth, uses_gcloud,
     uses_changedFilesBadSha, uses_changedFilesSha, uses_subPathSha,
     uses_localWorkflow, uses_localAction, uses_twoAt, uses_noSlash, uses_padded}

UsesPool == {[Value |-> v, Pos |-> p] : v \in UsesValuePool, p \in PosPool}

Entry(sha, comment) == [SHA |-> sha, Comment |-> comment]

\* the allowlist options of the tests and of the README, and one that
\* allowlists an official creator
AllowlistOptionPool ==
    <<<<>>,
     <<WithCreatorAllowlist(<<str_googleGithubActions>>)>>,
     <<WithCreatorAllowlist(<<str_actions>>)>>,
     <<WithActionAllowlist(<<str_googleAuth>>)>>,
     <<WithHashAllowlist(MakeMap(
         (str_changedFiles :> MakeSlice(<<Entry(sha_known, NilPtr)>>))))>>,
     <<WithHashAllowlist(MakeMap(
         (str_changedFiles :> MakeSlice(<<Entry(sha_other, <<str_commentLong>>),
                                          Entry(sha_unknown, NilPtr)>>))))>>,
     <<WithHashAllowlist(MakeMap(
         (str_changedFiles :> MakeSlice(<<Entry(sha_other, <<str_commentLong>>)>>))))>> >>

FlagOptions(f) ==
    <<WithExcludeOfficialActions(f[1]), WithExcludeVerifiedCreators(f[2]),
      WithAllowOnlyAllowlistedHash(f[3]), WithAllowArchivedRepo(f[4]),
      WithEnforcePinHash(f[5]), WithEnforceVerifiedOrganization(f[6])>>

ParamsPool ==
    {NewWorkflowLintParams(FlagOptions(f) \o AllowlistOptionPool[i]) :
        f \in [1..6 -> BOOLEAN], i \in 1..Len(AllowlistOptionPool)}

Project == [RootDir |-> path_root]

InfoPool ==
    {[FilePath |-> path_wf1, Project |-> Project, Params |-> p, RepoID |-> str_ownerRepo] :
        p \in ParamsPool}

Ok(fields) == [failed |-> FALSE, msg |-> <<>>] @@ fields
Failed(msg, fields) == [failed |-> TRUE, msg |-> msg] @@ fields

ArchivedPool ==
    {Ok([isArchived |-> FALSE, archivedAt |-> <<>>]),
     Ok([isArchived |-> TRUE, archivedAt |-> str_date]),
     Failed(str_networkDown, [isArchived |-> FALSE, archivedAt |-> <<>>])}

\* the answers of the user, organization and isVerified queries, as one case
OrgPool ==
    {[user |-> Ok([found |-> TRUE]), org |-> Ok([found |-> FALSE]),
      verified |-> Ok([isVerified |-> FALSE])],
     [user |-> Failed(str_networkDown, [found |-> FALSE]), org |-> Ok([found |-> TRUE]),
      verified |-> Ok([isVerified |-> TRUE])],
     [user |-> Failed(str_couldNotResolveUser, [found |-> FALSE]),
      org |-> Failed(str_networkDown, [found |-> FALSE]),
      verified |-> Ok([isVerified |-> FALSE])],
     [user |-> Failed(str_couldNotResolveUser, [found |-> FALSE]),
      org |-> Ok([found |-> FALSE]), verified |-> Ok([isVerified |-> FALSE])],
     [user |-> Failed(str_couldNotResolveUser, [found |-> FALSE]),
      org |-> Ok([found |-> TRUE]),
      verified |-> Failed(str_networkDown, [isVerified |-> FALSE])],
     [user |-> Failed(str_couldNotResolveUser, [found |-> FALSE]),
      org |-> Ok([found |-> TRUE]), verified |-> Ok([isVerified |-> FALSE])],
     [user |-> Ok([found |-> FALSE]),
      org |-> Ok([found |-> TRUE]), verified |-> Ok([isVerified |-> TRUE])],
     [user |-> Failed(str_couldNotResolveUser, [found |-> FALSE]),
      org |-> Ok([found |-> TRUE]), verified |-> Ok([isVerified |-> TRUE])]}

\* the resolver: reachable (it knows two commits), or failing every call
ResolverUp ==
    [fromHash |-> (sha_known :> Ok([tags |-> <<str_v45>>]))
                  @@ (sha_other :> Ok([tags |-> <<>>])),
     fromTag  |-> Ok([CommitHash |-> sha_known])]

ResolverDown ==
    [fromHash |-> (sha_known :> Failed(str_networkDown, [tags |-> <<>>]))
                  @@ (sha_other :> Failed(str_networkDown, [tags |-> <<>>])),
     fromTag  |-> Failed(str_tagNotFound, [CommitHash |-> <<>>])]

Remote(a, o, r) ==
    [archived |-> a, user |-> o.user, org |-> o.org, verified |-> o.verified,
     fromHash |-> r.fromHash, fromTag |-> r.fromTag]

NotArchived == Ok([isArchived |-> FALSE, archivedAt |-> <<>>])

UserFound ==
    [user |-> Ok([found |-> TRUE]), org |-> Ok([found |-> FALSE]),
     verified |-> Ok([isVerified |-> FALSE])]

\* every archived answer with every resolver state, and every case of the
\* login queries for a repository that is not archived
RemotePool ==
    {Remote(a, UserFound, r) : a \in ArchivedPool, r \in {ResolverUp, ResolverDown}}
    \cup {Remote(NotArchived, o, ResolverUp) : o \in OrgPool}

(***************************************************************************)
(* Inputs of the pipeline: the workflow files.  A file is what the file    *)
(* system and actionlint.Parse answer for it: readable or not, the parse   *)
(* errors, and the jobs with their steps.                                  *)
(***************************************************************************)
MaxFiles == 2
MaxTasks == 3
MaxWorkers == 2

ActionStep(value, line) ==
    [Exec |-> "ExecAction", Uses |-> [Value |-> value, Pos |-> [Line |-> line, Col |-> 15]]]

RunStep == [Exec |-> "ExecRun", Uses |-> NilUses]

Unreadable ==
    [readErr |-> str_noSuchFile, parseErrors |-> <<>>, Jobs |-> <<>>]

\* actionlint.Parse reports an error and returns what it could parse
Malformed ==
    [readErr |-> <<>>, parseErrors |-> <<str_yamlError>>,
     Jobs |-> <<<<ActionStep(uses_bufAction, 8)>>>>]

\* steps: tj-actions/changed-files@<unknown SHA>, bufbuild/buf-action@v1.0.2
TwoSteps ==
    [readErr |-> <<>>, parseErrors |-> <<>>,
     Jobs |-> <<<<ActionStep(uses_changedFilesBadSha, 8), ActionStep(uses_bufAction, 9)>>>>]

\* one step: google-github-actions/setup-gcloud@v2
OneStep ==
    [readErr |-> <<>>, parseErrors |-> <<>>,
     Jobs |-> <<<<ActionStep(uses_gcloud, 8)>>>>]

\* a run step, then the step google-github-actions/auth@v2
RunThenAction ==
    [readErr |-> <<>>, parseErrors |-> <<>>,
     Jobs |-> <<<<RunStep, ActionStep(uses_gauth, 9)>>>>]

FileKinds == {Unreadable, Malformed, TwoSteps, OneStep, RunThenAction}

RECURSIVE Flatten(_)
Flatten(seqs) == IF seqs = <<>> THEN <<>> ELSE Head(seqs) \o Flatten(Tail(seqs))

\* the goroutines that LintWorkflowContext starts for a file
NumTasks(file) ==
    IF file.readErr # <<>> THEN 0
    ELSE IF file.parseErrors # <<>> THEN 1
    ELSE Len(Flatten(file.Jobs))

RECURSIVE TotalTasks(_)
TotalTasks(files) ==
    IF files = <<>> THEN 0 ELSE NumTasks(Head(files)) + TotalTasks(Tail(files))

PathOf(i) == path_wfPrefix \o Itoa(i) \o str_yamlExt

\* the policy of test "include multiple errors": the defaults, enforce-pin-hash
PipelineParams == NewWorkflowLintParams(<<WithEnforcePinHash(TRUE)>>)

InfoOf(i) ==
    [FilePath |-> PathOf(i), Project |-> Project, Params |-> PipelineParams,
     RepoID |-> str_ownerRepo]

FileLists ==
    {fl \in UNION {[1..n -> FileKinds] : n \in 1..MaxFiles} : TotalTasks(fl) <= MaxTasks}

PipelineRemote == Remote(NotArchived, UserFound, ResolverUp)

\* what the resolver answers once ctx is cancelled: it may still answer,
\* or fail the call with the context's error
CancelledRemote(r) ==
    [r EXCEPT !.fromHash = [s \in DOMAIN r.fromHash |->
                               Failed(str_ctxCanceled, [tags |-> <<>>])],
              !.fromTag  = Failed(str_ctxCanceled, [CommitHash |-> <<>>])]

RemoteViews(r, cancelled) == IF cancelled THEN {r, CancelledRemote(r)} ELSE {r}

(***************************************************************************)
(* State.                                                                  *)
(***************************************************************************)
VARIABLES
    rule,           \* one evaluation of the rule chain: [uses, info, rem, state, out]
    caller,         \* "files": LintWorkflowFilesContext; "direct": a caller of
                    \* LintWorkflowFileContext and fanIn, as the test is
    wfLintInfoList, \* the files to lint
    numWorkers,     \* globalLintParams.NumWorkers
    remote,         \* the remote services
    ctxDone,        \* ctx is cancelled
    doneClosed,     \* the done channel is closed
    mainPc,         \* where the calling goroutine is
    fileIdx,        \* the file of the loop over wfLintInfoList
    stepsLeft,      \* the steps LintWorkflowContext has still to start
    sem,            \* per file, the slots held of the call's semaphore
    tasks,          \* the goroutines and their result channels, by channel
    fwd,            \* fanIn's multiplex goroutines, by channel
    fanInCalled,    \* fanIn has started its goroutines
    streamClosed,   \* multiplexedStream is closed
    lintErrors,     \* the caller's lintErrors
    logged          \* the runtime errors the caller logged

vars ==
    <<rule, caller, wfLintInfoList, numWorkers, remote, ctxDone, doneClosed, mainPc,
      fileIdx, stepsLeft, sem, tasks, fwd, fanInCalled, streamClosed, lintErrors, logged>>

pipeVars ==
    <<caller, wfLintInfoList, numWorkers, remote, ctxDone, doneClosed, mainPc,
      fileIdx, stepsLeft, sem, tasks, fwd, fanInCalled, streamClosed, lintErrors, logged>>

NoOutcome == Ret(Nil, <<>>)

NilErr == [nil |-> TRUE]
GoError(msg) == [nil |-> FALSE, msg |-> msg]

Result(errs, runtimeError) == [LintErrors |-> errs, RuntimeError |-> runtimeError]

NoResult == Result(<<>>, NilErr)

IdleRule ==
    [uses |-> NilUses, info |-> InfoOf(1), rem |-> PipelineRemote,
     state |-> "idle", out |-> NoOutcome]

PipelineIdle ==
    /\ caller = "none"
    /\ wfLintInfoList = <<>>
    /\ numWorkers = 1
    /\ remote = PipelineRemote
    /\ ctxDone = FALSE
    /\ doneClosed = FALSE
    /\ mainPc = "idle"
    /\ fileIdx = 1
    /\ stepsLeft = <<>>
    /\ sem = <<>>
    /\ tasks = <<>>
    /\ fwd = <<>>
    /\ fanInCalled = FALSE
    /\ streamClosed = FALSE
    /\ lintErrors = <<>>
    /\ logged = <<>>

(***************************************************************************)
(* The rule chain on its own: one reference, one parameter set, one remote *)
(* state.                                                                  *)
(***************************************************************************)
RuleInit ==
    /\ rule \in {[uses |-> u, info |-> w, rem |-> r, state |-> "start", out |-> NoOutcome] :
                    u \in UsesPool \cup {NilUses}, w \in InfoPool, r \in RemotePool}
    /\ PipelineIdle

\* l.lintJobUses(ctx, exec.Uses, wfLintInfo)
RuleEvaluate ==
    /\ rule.state = "start"
    /\ rule' = [rule EXCEPT !.state = "done",
                            !.out = lintJobUses(rule.uses, rule.info, rule.rem)]
    /\ UNCHANGED pipeVars

RuleNext == RuleEvaluate

SpecRule == RuleInit /\ [][RuleNext]_vars

(***************************************************************************)
(* The pipeline: LintWorkflowFilesContext (or the direct caller) as the    *)
(* calling goroutine, one goroutine per step, fanIn's multiplex goroutines *)
(* and its closer.  A send on an unbuffered channel is one step taken by   *)
(* the sender and the receiver together.                                   *)
(***************************************************************************)
PipelineStart ==
    /\ caller \in {"files", "direct"}
    /\ \E fl \in FileLists :
          /\ caller = "direct" => Len(fl) = 1
          /\ wfLintInfoList = [i \in 1..Len(fl) |-> [info |-> InfoOf(i)] @@ fl[i]]
    /\ numWorkers \in 1..MaxWorkers
    /\ remote = PipelineRemote
    /\ ctxDone = FALSE
    /\ doneClosed = FALSE
    /\ mainPc = "loop"
    /\ fileIdx = 1
    /\ stepsLeft = <<>>
    /\ sem = [i \in 1..Len(wfLintInfoList) |-> 0]
    /\ tasks = <<>>
    /\ fwd = <<>>
    /\ fanInCalled = FALSE
    /\ streamClosed = FALSE
    /\ lintErrors = <<>>
    /\ logged = <<>>

PipelineInit == rule = IdleRule /\ PipelineStart

CurFile == wfLintInfoList[fileIdx]

InLoop == mainPc = "loop" /\ fileIdx <= Len(wfLintInfoList)

\* the error LintWorkflowFileContext returns when os.ReadFile fails
ReadFileError(file) ==
    fmt_readFailed \o file.info.FilePath \o fmt_error \o file.readErr

\* the error the parse-failure goroutine sends
ParseError(file) ==
    GoError(fmt_parseFailed \o file.info.FilePath \o fmt_msg
            \o Join(file.parseErrors, <<"\n">>))

\* LintWorkflowFileContext returns an error.  LintWorkflowFilesContext builds
\* a lint error for it with a nil position; the direct caller requires no
\* error and gives up.  Either way the deferred close(done) runs.
ReadFileFails ==
    /\ InLoop
    /\ CurFile.readErr # <<>>
    /\ IF caller = "files"
       THEN LET e == newLintError(ReadFileError(CurFile), CurFile.info.FilePath,
                                  CurFile.info, NilPos, KindRuntimeError)
            IN  IF e = PanicNilDeref
                THEN /\ mainPc' = "panicked"
                     /\ doneClosed' = TRUE
                     /\ UNCHANGED <<lintErrors, fileIdx>>
                ELSE /\ lintErrors' = Append(lintErrors, e)
                     /\ fileIdx' = fileIdx + 1
                     /\ UNCHANGED <<mainPc, doneClosed>>
       ELSE /\ mainPc' = "stopped"
            /\ doneClosed' = TRUE
            /\ UNCHANGED <<lintErrors, fileIdx>>
    /\ UNCHANGED <<rule, caller, wfLintInfoList, numWorkers, remote, ctxDone, stepsLeft,
                   sem, tasks, fwd, fanInCalled, streamClosed, logged>>

\* a parse failure after which the steps that were parsed are dispatched
ParseFailsThenDispatches ==
    /\ InLoop
    /\ CurFile.readErr = <<>>
    /\ CurFile.parseErrors # <<>>
    /\ tasks' = Append(tasks, [file |-> fileIdx, kind |-> "parseErr", step |-> RunStep,
                               pc |-> "publish",
                               result |-> Result(<<>>, ParseError(CurFile))])
    /\ stepsLeft' = Flatten(CurFile.Jobs)
    /\ mainPc' = "dispatch"
    /\ UNCHANGED <<rule, caller, wfLintInfoList, numWorkers, remote, ctxDone, doneClosed,
                   fileIdx, sem, fwd, fanInCalled, streamClosed, lintErrors, logged>>

\* actionlint.Parse reports errors: one goroutine that publishes the failure
ParseFails ==
    /\ InLoop
    /\ CurFile.readErr = <<>>
    /\ CurFile.parseErrors # <<>>
    /\ tasks' = Append(tasks, [file |-> fileIdx, kind |-> "parseErr", step |-> RunStep,
                               pc |-> "publish",
                               result |-> Result(<<>>, ParseError(CurFile))])
    /\ fileIdx' = fileIdx + 1
    /\ UNCHANGED <<rule, caller, wfLintInfoList, numWorkers, remote, ctxDone, doneClosed,
                   mainPc, stepsLeft, sem, fwd, fanInCalled, streamClosed, lintErrors,
                   logged>>

\* the parse succeeds: a new semaphore, and the steps in the order in which
\* the range over the Jobs map happens to visit the jobs
ParseSucceeds ==
    /\ InLoop
    /\ CurFile.readErr = <<>>
    /\ CurFile.parseErrors = <<>>
    /\ \E order \in Permutations(1..Len(CurFile.Jobs)) :
          stepsLeft' = Flatten([k \in 1..Len(CurFile.Jobs) |-> CurFile.Jobs[order[k]]])
    /\ sem' = [sem EXCEPT ![fileIdx] = 0]
    /\ mainPc' = "dispatch"
    /\ UNCHANGED <<rule, caller, wfLintInfoList, numWorkers, remote, ctxDone, doneClosed,
                   fileIdx, tasks, fwd, fanInCalled, streamClosed, lintErrors, logged>>

\* a limiter that always has a slot
CanAcquireAlways(cur, size) == TRUE

\* sem.Acquire(ctx, 1) returns at once when a slot is free
CanAcquire(cur, size) == cur + 1 <= size

\* the slots taken of the limiters of the files 1..n together
RECURSIVE SlotsTaken(_, _)
SlotsTaken(s, n) == IF n = 0 THEN 0 ELSE s[n] + SlotsTaken(s, n - 1)

\* one limiter shared by all the calls
LimiterShared(s, f) == SlotsTaken(s, Len(s))

\* sem is a local of LintWorkflowContext: the call for file f counts its
\* own slots only
LimiterOf(s, f) == s[f]

\* a dispatch that starts a goroutine for action steps only
StartTaskActionsOnly ==
    /\ mainPc = "dispatch"
    /\ stepsLeft # <<>>
    /\ ~ctxDone
    /\ IF Head(stepsLeft).Exec = "ExecAction"
       THEN /\ CanAcquire(LimiterOf(sem, fileIdx), numWorkers)
            /\ sem' = [sem EXCEPT ![fileIdx] = @ + 1]
            /\ tasks' = Append(tasks, [file |-> fileIdx, kind |-> "step",
                                       step |-> Head(stepsLeft),
                                       pc |-> "eval", result |-> NoResult])
       ELSE UNCHANGED <<sem, tasks>>
    /\ stepsLeft' = Tail(stepsLeft)
    /\ UNCHANGED <<rule, caller, wfLintInfoList, numWorkers, remote, ctxDone, doneClosed,
                   mainPc, fileIdx, fwd, fanInCalled, streamClosed, lintErrors, logged>>

\* runLinter: the slot is acquired and the goroutine started
StartTask ==
    /\ mainPc = "dispatch"
    /\ stepsLeft # <<>>
    /\ ~ctxDone
    /\ CanAcquire(LimiterOf(sem, fileIdx), numWorkers)
    /\ sem' = [sem EXCEPT ![fileIdx] = @ + 1]
    /\ tasks' = Append(tasks, [file |-> fileIdx, kind |-> "step", step |-> Head(stepsLeft),
                               pc |-> "eval", result |-> NoResult])
    /\ stepsLeft' = Tail(stepsLeft)
    /\ UNCHANGED <<rule, caller, wfLintInfoList, numWorkers, remote, ctxDone, doneClosed,
                   mainPc, fileIdx, fwd, fanInCalled, streamClosed, lintErrors, logged>>

\* runLinter: sem.Acquire returns ctx's error, and the caller sends a Result
\* on the channel it has just made, which no goroutine receives from
AcquireFails ==
    /\ mainPc = "dispatch"
    /\ stepsLeft # <<>>
    /\ ctxDone
    /\ mainPc' = "blocked"
    /\ UNCHANGED <<rule, caller, wfLintInfoList, numWorkers, remote, ctxDone, doneClosed,
                   fileIdx, stepsLeft, sem, tasks, fwd, fanInCalled, streamClosed,
                   lintErrors, logged>>

\* LintWorkflowContext returns the channels of the file
DispatchDone ==
    /\ mainPc = "dispatch"
    /\ stepsLeft = <<>>
    /\ mainPc' = "loop"
    /\ fileIdx' = fileIdx + 1
    /\ UNCHANGED <<rule, caller, wfLintInfoList, numWorkers, remote, ctxDone, doneClosed,
                   stepsLeft, sem, tasks, fwd, fanInCalled, streamClosed, lintErrors,
                   logged>>

\* fanIn(done, executorChannels...): one multiplex goroutine per channel
FanIn ==
    /\ mainPc = "loop"
    /\ fileIdx > Len(wfLintInfoList)
    /\ fwd' = [i \in 1..Len(tasks) |-> [pc |-> "recv", val |-> NoResult]]
    /\ fanInCalled' = TRUE
    /\ mainPc' = "drain"
    /\ UNCHANGED <<rule, caller, wfLintInfoList, numWorkers, remote, ctxDone, doneClosed,
                   fileIdx, stepsLeft, sem, tasks, streamClosed, lintErrors, logged>>

\* a goroutine that reports the pin rule whatever the earlier rules said
stepLintErrorsEveryRule(step, wfLintInfo, rem) ==
    IF step.Exec = "ExecAction"
    THEN LET lintError == lintJobUses(step.Uses, wfLintInfo, rem).err
             parsed    == ParseActionUses(step.Uses.Value)
             pinError  == IF parsed.failed \/ RelPath(wfLintInfo).failed THEN Nil
                          ELSE lintPin(parsed.action, step.Uses, RelPath(wfLintInfo).path,
                                       wfLintInfo, rem, <<>>).err
         IN  (IF lintError # Nil THEN <<lintError>> ELSE <<>>)
             \o (IF pinError # Nil /\ pinError # lintError THEN <<pinError>> ELSE <<>>)
    ELSE <<>>

\* the goroutine's switch on step.Exec: the lint errors of the step
stepLintErrors(step, wfLintInfo, rem) ==
    IF step.Exec = "ExecAction"
    THEN LET lintError == lintJobUses(step.Uses, wfLintInfo, rem).err
         IN  IF lintError # Nil THEN <<lintError>> ELSE <<>>
    ELSE <<>>

\* the goroutine runs the rule chain
Eval(i) ==
    /\ tasks[i].pc = "eval"
    /\ \E view \in RemoteViews(remote, ctxDone) :
          tasks' = [tasks EXCEPT
                      ![i].pc = "release",
                      ![i].result =
                          Result(stepLintErrors(tasks[i].step,
                                                wfLintInfoList[tasks[i].file].info, view),
                                 NilErr)]
    /\ UNCHANGED <<rule, caller, wfLintInfoList, numWorkers, remote, ctxDone, doneClosed,
                   mainPc, fileIdx, stepsLeft, sem, fwd, fanInCalled, streamClosed,
                   lintErrors, logged>>

\* a goroutine that keeps its slot while it publishes
ReleaseKeepsSlot(i) ==
    /\ tasks[i].pc = "release"
    /\ tasks' = [tasks EXCEPT ![i].pc = "publish"]
    /\ UNCHANGED <<rule, caller, wfLintInfoList, numWorkers, remote, ctxDone, doneClosed,
                   mainPc, fileIdx, stepsLeft, sem, fwd, fanInCalled, streamClosed,
                   lintErrors, logged>>

\* sem.Release(1)
Release(i) ==
    /\ tasks[i].pc = "release"
    /\ sem' = [sem EXCEPT ![tasks[i].file] = @ - 1]
    /\ tasks' = [tasks EXCEPT ![i].pc = "publish"]
    /\ UNCHANGED <<rule, caller, wfLintInfoList, numWorkers, remote, ctxDone, doneClosed,
                   mainPc, fileIdx, stepsLeft, fwd, fanInCalled, streamClosed, lintErrors,
                   logged>>

\* the select's send case: the multiplex goroutine of the channel receives
\* the Result; the goroutine returns and its channel is closed
Publish(i) ==
    /\ tasks[i].pc = "publish"
    /\ fanInCalled
    /\ fwd[i].pc = "recv"
    /\ fwd' = [fwd EXCEPT ![i] = [pc |-> "send", val |-> tasks[i].result]]
    /\ tasks' = [tasks EXCEPT ![i].pc = "exit"]
    /\ UNCHANGED <<rule, caller, wfLintInfoList, numWorkers, remote, ctxDone, doneClosed,
                   mainPc, fileIdx, stepsLeft, sem, fanInCalled, streamClosed, lintErrors,
                   logged>>

\* a select without the done case
AbandonNever(i) == FALSE /\ UNCHANGED vars

\* the select's done case: the goroutine returns and its channel is closed
Abandon(i) ==
    /\ tasks[i].pc = "publish"
    /\ doneClosed
    /\ tasks' = [tasks EXCEPT ![i].pc = "exit"]
    /\ UNCHANGED <<rule, caller, wfLintInfoList, numWorkers, remote, ctxDone, doneClosed,
                   mainPc, fileIdx, stepsLeft, sem, fwd, fanInCalled, streamClosed,
                   lintErrors, logged>>

\* multiplex: the range over the channel ends when the channel is closed
ChannelClosed(i) ==
    /\ fanInCalled
    /\ fwd[i].pc = "recv"
    /\ tasks[i].pc = "exit"
    /\ fwd' = [fwd EXCEPT ![i].pc = "exit"]
    /\ UNCHANGED <<rule, caller, wfLintInfoList, numWorkers, remote, ctxDone, doneClosed,
                   mainPc, fileIdx, stepsLeft, sem, tasks, fanInCalled, streamClosed,
                   lintErrors, logged>>

\* a multiplex goroutine that gives up whether or not done is closed
ForwardAbandonAnytime(i) ==
    /\ fanInCalled
    /\ fwd[i].pc = "send"
    /\ fwd' = [fwd EXCEPT ![i].pc = "exit"]
    /\ UNCHANGED <<rule, caller, wfLintInfoList, numWorkers, remote, ctxDone, doneClosed,
                   mainPc, fileIdx, stepsLeft, sem, tasks, fanInCalled, streamClosed,
                   lintErrors, logged>>

\* a multiplex goroutine whose select has no done case
ForwardAbandonNever(i) == FALSE /\ UNCHANGED vars

\* multiplex: the select's done case
ForwardAbandon(i) ==
    /\ fanInCalled
    /\ fwd[i].pc = "send"
    /\ doneClosed
    /\ fwd' = [fwd EXCEPT ![i].pc = "exit"]
    /\ UNCHANGED <<rule, caller, wfLintInfoList, numWorkers, remote, ctxDone, doneClosed,
                   mainPc, fileIdx, stepsLeft, sem, tasks, fanInCalled, streamClosed,
                   lintErrors, logged>>

\* the closer goroutine: wg.Wait() returns, close(multiplexedStream)
CloseStream ==
    /\ fanInCalled
    /\ ~streamClosed
    /\ \A i \in 1..Len(fwd) : fwd[i].pc = "exit"
    /\ streamClosed' = TRUE
    /\ UNCHANGED <<rule, caller, wfLintInfoList, numWorkers, remote, ctxDone, doneClosed,
                   mainPc, fileIdx, stepsLeft, sem, tasks, fwd, fanInCalled, lintErrors,
                   logged>>

\* a loop body that drops a RuntimeError without logging it
AggregateUnlogged(errs, logs, result) ==
    IF result.RuntimeError # NilErr
    THEN [lintErrors |-> errs, logged |-> logs]
    ELSE [lintErrors |-> errs \o result.LintErrors, logged |-> logs]

\* a loop body that keeps the lint errors of the last Result only
AggregateOverwrite(errs, logs, result) ==
    IF result.RuntimeError # NilErr
    THEN [lintErrors |-> errs, logged |-> Append(logs, result.RuntimeError)]
    ELSE [lintErrors |-> result.LintErrors, logged |-> logs]

\* the body of LintWorkflowFilesContext's loop over the merged stream
Aggregate(errs, logs, result) ==
    IF result.RuntimeError # NilErr
    THEN [lintErrors |-> errs, logged |-> Append(logs, result.RuntimeError)]
    ELSE [lintErrors |-> errs \o result.LintErrors, logged |-> logs]

\* a merged stream that hands the Results over in the order of the channels
ConsumeInSourceOrder(i) ==
    /\ mainPc = "drain"
    /\ fwd[i].pc = "send"
    /\ \A j \in 1..(i - 1) : fwd[j].pc = "exit"
    /\ fwd' = [fwd EXCEPT ![i] = [pc |-> "recv", val |-> NoResult]]
    /\ LET a == Aggregate(lintErrors, logged, fwd[i].val)
       IN  /\ lintErrors' = a.lintErrors
           /\ logged' = a.logged
    /\ IF caller = "direct" /\ fwd[i].val.RuntimeError # NilErr
       THEN mainPc' = "stopped" /\ doneClosed' = TRUE
       ELSE UNCHANGED <<mainPc, doneClosed>>
    /\ UNCHANGED <<rule, caller, wfLintInfoList, numWorkers, remote, ctxDone, fileIdx,
                   stepsLeft, sem, tasks, fanInCalled, streamClosed>>

\* the caller receives a Result from the merged stream.  The direct caller
\* gives up on a RuntimeError, and its deferred close(done) runs.
Consume(i) ==
    /\ mainPc = "drain"
    /\ fwd[i].pc = "send"
    /\ fwd' = [fwd EXCEPT ![i] = [pc |-> "recv", val |-> NoResult]]
    /\ LET a == Aggregate(lintErrors, logged, fwd[i].val)
       IN  /\ lintErrors' = a.lintErrors
           /\ logged' = a.logged
    /\ IF caller = "direct" /\ fwd[i].val.RuntimeError # NilErr
       THEN mainPc' = "stopped" /\ doneClosed' = TRUE
       ELSE UNCHANGED <<mainPc, doneClosed>>
    /\ UNCHANGED <<rule, caller, wfLintInfoList, numWorkers, remote, ctxDone, fileIdx,
                   stepsLeft, sem, tasks, fanInCalled, streamClosed>>

\* a caller that returns while goroutines are still at work
ReturnEarly ==
    /\ mainPc = "drain"
    /\ mainPc' = "returned"
    /\ doneClosed' = TRUE
    /\ UNCHANGED <<rule, caller, wfLintInfoList, numWorkers, remote, ctxDone, fileIdx,
                   stepsLeft, sem, tasks, fwd, fanInCalled, streamClosed, lintErrors,
                   logged>>

\* the merged stream is closed: the loop ends, the caller returns and the
\* deferred close(done) runs
Return ==
    /\ mainPc = "drain"
    /\ streamClosed
    /\ mainPc' = "returned"
    /\ doneClosed' = TRUE
    /\ UNCHANGED <<rule, caller, wfLintInfoList, numWorkers, remote, ctxDone, fileIdx,
                   stepsLeft, sem, tasks, fwd, fanInCalled, streamClosed, lintErrors,
                   logged>>

\* the direct caller stops reading the merged stream and closes done
Stop ==
    /\ caller = "direct"
    /\ mainPc = "drain"
    /\ mainPc' = "stopped"
    /\ doneClosed' = TRUE
    /\ UNCHANGED <<rule, caller, wfLintInfoList, numWorkers, remote, ctxDone, fileIdx,
                   stepsLeft, sem, tasks, fwd, fanInCalled, streamClosed, lintErrors,
                   logged>>

\* the ambient context is cancelled, or its deadline passes
CancelCtx ==
    /\ ~ctxDone
    /\ mainPc \in {"loop", "dispatch", "drain"}
    /\ ctxDone' = TRUE
    /\ UNCHANGED <<rule, caller, wfLintInfoList, numWorkers, remote, doneClosed, mainPc,
                   fileIdx, stepsLeft, sem, tasks, fwd, fanInCalled, streamClosed,
                   lintErrors, logged>>

Next ==
    \/ ReadFileFails
    \/ ParseFails
    \/ ParseSucceeds
    \/ StartTask
    \/ AcquireFails
    \/ DispatchDone
    \/ FanIn
    \/ \E i \in 1..Len(tasks) : Eval(i)
    \/ \E i \in 1..Len(tasks) : Release(i)
    \/ \E i \in 1..Len(tasks) : Publish(i)
    \/ \E i \in 1..Len(tasks) : Abandon(i)
    \/ \E i \in 1..Len(fwd) : ChannelClosed(i)
    \/ \E i \in 1..Len(fwd) : ForwardAbandon(i)
    \/ \E i \in 1..Len(fwd) : Consume(i)
    \/ CloseStream
    \/ Return
    \/ Stop
    \/ CancelCtx

Spec == PipelineInit /\ [][Next]_vars

\* one call of LintWorkflowContext, from either caller
FairInit == PipelineInit /\ Len(wfLintInfoList) = 1

\* one call under a scheduler that runs every goroutine that can take a
\* step: the caller's dispatch loop and the step goroutines up to their
\* publish. Eval(i) is enabled exactly while task i is at "eval"
\* (RemoteViews is never empty), so its weak fairness is written out: task i
\* is infinitely often away from "eval" or takes its Eval step infinitely
\* often.
FairSpec ==
    /\ FairInit
    /\ [][Next]_vars
    /\ WF_vars(StartTask)
    /\ WF_vars(DispatchDone)
    /\ \A i \in 1..MaxTasks :
          \/ []<>~(i <= Len(tasks) /\ tasks[i].pc = "eval")
          \/ []<><<i <= Len(tasks) /\ Eval(i)>>_vars
    /\ \A i \in 1..MaxTasks : WF_vars(i <= Len(tasks) /\ Release(i))

\* the steps of the calling goroutine, the done-closing Stop of the direct
\* caller apart: it is at one place of its code and takes the step there
CallerStep ==
    \/ ReadFileFails
    \/ ParseFails
    \/ ParseSucceeds
    \/ StartTask
    \/ AcquireFails
    \/ DispatchDone
    \/ FanIn
    \/ \E i \in 1..Len(fwd) : Consume(i)
    \/ Return

\* the scheduler runs every goroutine that can take a step: the caller, the
\* step and parse-failure goroutines (Eval as in FairSpec), the multiplex
\* goroutines and fanIn's closer.  Nothing makes the context be cancelled
\* or the direct caller stop reading.
SchedulerFair ==
    /\ WF_vars(CallerStep)
    /\ \A i \in 1..MaxTasks :
          \/ []<>~(i <= Len(tasks) /\ tasks[i].pc = "eval")
          \/ []<><<i <= Len(tasks) /\ Eval(i)>>_vars
    /\ \A i \in 1..MaxTasks :
          WF_vars(i <= Len(tasks) /\ (Release(i) \/ Publish(i) \/ Abandon(i)))
    /\ \A i \in 1..MaxTasks :
          WF_vars(i <= Len(fwd) /\ (ChannelClosed(i) \/ ForwardAbandon(i)))
    /\ WF_vars(CloseStream)

\* LintWorkflowFilesContext, or a direct caller, under that scheduler
FairFilesSpec == Spec /\ SchedulerFair

\* one call of LintWorkflowContext under that scheduler
FairCallSpec == FairInit /\ [][Next]_vars /\ SchedulerFair

(***************************************************************************)
(* Generated uses values: up to MaxSegs segments joined by "@".  No        *)
(* segment holds an "@", so a value of k segments holds k - 1 of them.     *)
(***************************************************************************)
MaxSegs == 3

SegPool ==
    {<<>>, <<"a">>, <<"o", "/", "r">>, <<"o", "/", "r", "/", "p">>, <<"/", "r">>,
     <<"o", "/">>, <<" ", "o", "/", "r">>, <<"v", " ">>, str_localWorkflowPrefix}

SegStrings(k) == {Join(f, <<"@">>) : f \in [1..k -> SegPool]}

GenStrings == UNION {SegStrings(k) : k \in 1..MaxSegs}

\* the parameter sets for the generated values with an "@": the defaults,
\* every flag set, every flag cleared, and a creator allowlist
GenParamsPool ==
    {NewWorkflowLintParams(<<>>),
     NewWorkflowLintParams(FlagOptions([i \in 1..6 |-> TRUE])),
     NewWorkflowLintParams(FlagOptions([i \in 1..6 |-> FALSE])),
     NewWorkflowLintParams(<<WithCreatorAllowlist(<<<<"o">>>>)>>)}

\* every service answers, or every service fails
GenRemotePool ==
    {Remote(NotArchived, UserFound, ResolverUp),
     Remote(Failed(str_networkDown, [isArchived |-> FALSE, archivedAt |-> <<>>]),
            [user |-> Failed(str_networkDown, [found |-> FALSE]),
             org |-> Failed(str_networkDown, [found |-> FALSE]),
             verified |-> Failed(str_networkDown, [isVerified |-> FALSE])],
            ResolverDown)}

GenInfo(p) ==
    [FilePath |-> path_wf1, Project |-> Project, Params |-> p, RepoID |-> str_ownerRepo]

\* the rule chain on the generated values: a value without "@" under every
\* parameter set, the others under the sets of GenParamsPool
UsesInit ==
    /\ \E v \in GenStrings, pos \in PosPool, r \in GenRemotePool :
          \E p \in IF v \in SegStrings(1) THEN ParamsPool ELSE GenParamsPool :
             rule = [uses |-> [Value |-> v, Pos |-> pos], info |-> GenInfo(p),
                     rem |-> r, state |-> "start", out |-> NoOutcome]
    /\ PipelineIdle

SpecUses == UsesInit /\ [][RuleNext]_vars

\* the parser on its own
ParseInit ==
    /\ \E v \in GenStrings :
          rule = [uses |-> [Value |-> v, Pos |-> [Line |-> 1, Col |-> 1]],
                  info |-> InfoOf(1), rem |-> PipelineRemote,
                  state |-> "unparsed", out |-> NoOutcome]
    /\ PipelineIdle

\* ParseActionUses(uses)
ParseApply ==
    /\ rule.state = "unparsed"
    /\ rule' = [rule EXCEPT !.state = "parsed",
                            !.out = ParseActionUses(rule.uses.Value)]
    /\ UNCHANGED pipeVars

ParseNext == ParseApply

SpecParse == ParseInit /\ [][ParseNext]_vars

(***************************************************************************)
(* NewWorkflowLintParams on sequences of options, and GetHashAllowlist on  *)
(* the set it returns.                                                     *)
(***************************************************************************)
MaxOpts == 3

\* an action with a sub-path, and the same repository without one
ActionSubPath == ParseActionUses(uses_subPathSha).action

ActionRepo == ParseActionUses(uses_changedFilesSha).action

ActionOther == ParseActionUses(uses_bufAction).action

ActionPool == <<ActionSubPath, ActionRepo, ActionOther>>

\* the options a caller can pass: each flag with the value that is not its
\* default, one flag with its default, and allowlists that overlap
OptionPool ==
    <<WithExcludeOfficialActions(FALSE),
      WithExcludeOfficialActions(TRUE),
      WithExcludeVerifiedCreators(TRUE),
      WithAllowOnlyAllowlistedHash(TRUE),
      WithAllowArchivedRepo(FALSE),
      WithEnforcePinHash(FALSE),
      WithEnforceVerifiedOrganization(TRUE),
      WithCreatorAllowlist(<<>>),
      WithCreatorAllowlist(<<<<"a">>, <<"b">>>>),
      WithCreatorAllowlist(<<<<"b">>, <<"c">>, <<"c">>>>),
      WithActionAllowlist(<<str_googleAuth>>),
      WithActionAllowlist(<<str_dockerLogin, str_googleAuth>>),
      WithHashAllowlist(NilMap),
      WithHashAllowlist(MakeMap(
          (ActionSubPath.ID :> MakeSlice(<<>>))
          @@ (RepoID(ActionSubPath) :> MakeSlice(<<Entry(sha_known, NilPtr)>>)))),
      WithHashAllowlist(MakeMap(
          (RepoID(ActionSubPath) :> MakeSlice(<<Entry(sha_other, NilPtr)>>))
          @@ (str_changedFiles :> MakeSlice(<<Entry(sha_known, NilPtr)>>)))),
      WithHashAllowlist(MakeMap(
          (ActionSubPath.ID :> MakeSlice(<<Entry(sha_other, NilPtr)>>))))>>

\* the options applied so far, in order
OptionsOf(applied) == [i \in 1..Len(applied) |-> OptionPool[applied[i]]]

ParamsInit ==
    /\ rule = [state |-> "options", applied |-> <<>>, p |-> ZeroWorkflowLintParams,
               out |-> ZeroWorkflowLintParams, action |-> ActionOther,
               list |-> NilSlice]
    /\ PipelineIdle

\* NewWorkflowLintParams, the loop over opts: opt(&p)
ParamsApply ==
    /\ rule.state = "options"
    /\ Len(rule.applied) < MaxOpts
    /\ \E k \in 1..Len(OptionPool) :
          rule' = [rule EXCEPT !.applied = Append(@, k),
                               !.p = ApplyOption(@, OptionPool[k])]
    /\ UNCHANGED pipeVars

\* NewWorkflowLintParams returns
ParamsBuild ==
    /\ rule.state = "options"
    /\ rule' = [rule EXCEPT !.state = "built",
                            !.out = NewWorkflowLintParams(OptionsOf(rule.applied))]
    /\ UNCHANGED pipeVars

\* params.GetHashAllowlist(action)
ParamsLookup ==
    /\ rule.state = "built"
    /\ \E k \in 1..Len(ActionPool) :
          rule' = [rule EXCEPT !.state = "looked", !.action = ActionPool[k],
                               !.list = GetHashAllowlist(rule.out, ActionPool[k])]
    /\ UNCHANGED pipeVars

ParamsNext == ParamsApply \/ ParamsBuild \/ ParamsLookup

SpecParams == ParamsInit /\ [][ParamsNext]_vars

(***************************************************************************)
(* makeLintParams: the parameter set of each workflow, from its config     *)
(* file and the command-line flags, with the cache of parameter sets.      *)
(***************************************************************************)
MaxWorkflows == 2

\* flag names (flag.go)
excludeOfficialActionsFlagName == "exclude-official"
excludeVerifiedCreatorsFlagName == "exclude-verified-creators"
allowOnlyAllowlistedHashFlagName == "only-allowlisted-hash"
allowArchivedRepoFlagName == "allow-archived-repo"
enforcePinHashFlagName == "enforce-pin-hash"
enforceVerifiedOrganizationFlagName == "enforce-verified-org"
creatorAllowlistFlagName == "creator-allowlist"
actionAllowlistFlagName == "action-allowlist"

\* the flag variables as pflag leaves them when no flag is given
DefaultFlags ==
    [changed                  |-> {},
     ExcludeOfficialActions   |-> DefaultExcludeOfficialActions,
     ExcludeVerifiedCreators  |-> DefaultExcludeVerifiedCreators,
     AllowOnlyAllowlistedHash |-> DefaultAllowOnlyAllowlistedHash,
     AllowArchivedRepo        |-> DefaultAllowArchivedRepo,
     EnforcePinHash           |-> DefaultEnforcePinHash,
     EnforceVerifiedOrg       |-> DefaultEnforceVerifiedOrg,
     CreatorAllowlist         |-> <<>>,
     ActionAllowlist          |-> <<>>]

\* command lines: no flag; --enforce-pin-hash --creator-allowlist b
\* --creator-allowlist c; --allow-archived-repo=false --exclude-official=false
\* --action-allowlist docker/login-action; every boolean flag, each with
\* the value that is not its default
FlagsPool ==
    <<DefaultFlags,
      [DefaultFlags EXCEPT
          !.changed = {enforcePinHashFlagName, creatorAllowlistFlagName},
          !.EnforcePinHash = TRUE,
          !.CreatorAllowlist = <<<<"b">>, <<"c">>>>],
      [DefaultFlags EXCEPT
          !.changed = {allowArchivedRepoFlagName, excludeOfficialActionsFlagName,
                       actionAllowlistFlagName},
          !.AllowArchivedRepo = FALSE,
          !.ExcludeOfficialActions = FALSE,
          !.ActionAllowlist = <<str_dockerLogin>>],
      [DefaultFlags EXCEPT
          !.changed = {excludeOfficialActionsFlagName, excludeVerifiedCreatorsFlagName,
                       allowOnlyAllowlistedHashFlagName, allowArchivedRepoFlagName,
                       enforcePinHashFlagName, enforceVerifiedOrganizationFlagName},
          !.ExcludeOfficialActions = FALSE,
          !.ExcludeVerifiedCreators = TRUE,
          !.AllowOnlyAllowlistedHash = TRUE,
          !.AllowArchivedRepo = FALSE,
          !.EnforcePinHash = FALSE,
          !.EnforceVerifiedOrg = TRUE]>>

IfChanged(flags, name, opt) == IF name \in flags.changed THEN <<opt>> ELSE <<>>

\* VisitAll visits the flags in the order of their names
toWorkflowLintOptionsFromFlags(flags) ==
    IfChanged(flags, actionAllowlistFlagName, WithActionAllowlist(flags.ActionAllowlist))
    \o IfChanged(flags, allowArchivedRepoFlagName,
                 WithAllowArchivedRepo(flags.AllowArchivedRepo))
    \o IfChanged(flags, creatorAllowlistFlagName,
                 WithCreatorAllowlist(flags.CreatorAllowlist))
    \o IfChanged(flags, enforcePinHashFlagName, WithEnforcePinHash(flags.EnforcePinHash))
    \o IfChanged(flags, enforceVerifiedOrganizationFlagName,
                 WithEnforceVerifiedOrganization(flags.EnforceVerifiedOrg))
    \o IfChanged(flags, excludeOfficialActionsFlagName,
                 WithExcludeOfficialActions(flags.ExcludeOfficialActions))
    \o IfChanged(flags, excludeVerifiedCreatorsFlagName,
                 WithExcludeVerifiedCreators(flags.ExcludeVerifiedCreators))
    \o IfChanged(flags, allowOnlyAllowlistedHashFlagName,
                 WithAllowOnlyAllowlistedHash(flags.AllowOnlyAllowlistedHash))

\* WorkflowLintParams.GetOptions
GetOptions(p) ==
    (IF p.ExcludeOfficialActions # NilPtr
     THEN <<WithExcludeOfficialActions(Deref(p.ExcludeOfficialActions))>> ELSE <<>>)
    \o (IF p.ExcludeVerifiedCreators # NilPtr
        THEN <<WithExcludeVerifiedCreators(Deref(p.ExcludeVerifiedCreators))>> ELSE <<>>)
    \o (IF p.AllowOnlyAllowlistedHash # NilPtr
        THEN <<WithAllowOnlyAllowlistedHash(Deref(p.AllowOnlyAllowlistedHash))>> ELSE <<>>)
    \o (IF p.AllowArchivedRepo # NilPtr
        THEN <<WithAllowArchivedRepo(Deref(p.AllowArchivedRepo))>> ELSE <<>>)
    \o (IF p.EnforcePinHash # NilPtr
        THEN <<WithEnforcePinHash(Deref(p.EnforcePinHash))>> ELSE <<>>)
    \o (IF p.EnforceVerifiedOrganization # NilPtr
        THEN <<WithEnforceVerifiedOrganization(Deref(p.EnforceVerifiedOrganization))>>
        ELSE <<>>)
    \o (IF Len(p.CreatorAllowlist.items) > 0
        THEN <<WithCreatorAllowlist(p.CreatorAllowlist.items)>> ELSE <<>>)
    \o (IF Len(p.ActionAllowlist.items) > 0
        THEN <<WithActionAllowlist(p.ActionAllowlist.items)>> ELSE <<>>)
    \o (IF p.HashAllowlist.m # <<>>
        THEN <<WithHashAllowlist(p.HashAllowlist)>> ELSE <<>>)

\* what yaml.Unmarshal makes of the contents of the config files: an empty
\* file; enforce_pin_hash: false with creators a, b; the same with
\* enforce_pin_hash: true; a file with every flag, two actions and a hash
\* allowlist
ContentPool ==
    <<ZeroWorkflowLintParams,
      [ZeroWorkflowLintParams EXCEPT
          !.EnforcePinHash = boolPtr(FALSE),
          !.CreatorAllowlist = MakeSlice(<<<<"a">>, <<"b">>>>)],
      [ZeroWorkflowLintParams EXCEPT
          !.EnforcePinHash = boolPtr(TRUE),
          !.CreatorAllowlist = MakeSlice(<<<<"a">>, <<"b">>>>)],
      [ExcludeOfficialActions      |-> boolPtr(TRUE),
       ExcludeVerifiedCreators     |-> boolPtr(TRUE),
       AllowOnlyAllowlistedHash    |-> boolPtr(FALSE),
       AllowArchivedRepo           |-> boolPtr(TRUE),
       EnforcePinHash              |-> boolPtr(TRUE),
       EnforceVerifiedOrganization |-> boolPtr(FALSE),
       CreatorAllowlist            |-> NilSlice,
       ActionAllowlist             |-> MakeSlice(<<str_googleAuth, str_dockerLogin>>),
       HashAllowlist               |-> MakeMap(
           (str_changedFiles :> MakeSlice(<<Entry(sha_known, NilPtr)>>)))]>>

str_dotDir == <<".">>
str_dataDir == <<"d", "a", "t", "a">>
str_toolYaml == <<"a", "c", "t", "i", "o", "n", "a", "r", "m", "o", "r", ".", "y", "a", "m", "l">>
str_toolYml == <<"a", "c", "t", "i", "o", "n", "a", "r", "m", "o", "r", ".", "y", "m", "l">>

NilConfig == [nil |-> TRUE]

\* NewConfigFileFromFile(path): the directory of path becomes the file
\* system, and the instance keeps "." and the base name
NewConfigFileFromFile(dir, base, content) ==
    [nil |-> FALSE, source |-> "file", fileSystem |-> dir, dirPath |-> str_dotDir,
     fileName |-> base, content |-> content]

NewConfigFileFromFS(content) ==
    [nil |-> FALSE, source |-> "fs", fileSystem |-> <<"e", "m", "b", "e", "d">>,
     dirPath |-> str_dataDir, fileName |-> str_toolYaml, content |-> content]

\* the configs of the workflows: none; .github/actionarmor.yaml of three
\* projects, the third with the contents of the first but for one value;
\* .github/actionarmor.yml with the contents of the first; an embedded file
\* system.  content is an index of ContentPool, 0 for a file that cannot be
\* read.
ConfigPool ==
    <<NilConfig,
      NewConfigFileFromFile(<<"/", "a", "/", ".", "g", "i", "t", "h", "u", "b">>,
                            str_toolYaml, 2),
      NewConfigFileFromFile(<<"/", "b", "/", ".", "g", "i", "t", "h", "u", "b">>,
                            str_toolYaml, 4),
      NewConfigFileFromFile(<<"/", "c", "/", ".", "g", "i", "t", "h", "u", "b">>,
                            str_toolYaml, 3),
      NewConfigFileFromFile(<<"/", "d", "/", ".", "g", "i", "t", "h", "u", "b">>,
                            str_toolYml, 2),
      NewConfigFileFromFS(1),
      NewConfigFileFromFile(<<"/", "e">>, str_toolYml, 0)>>

\* filepath.Join(dirPath, fileName) for a clean dirPath and a base name
FilePathOf(c) ==
    IF c.dirPath = str_dotDir THEN c.fileName ELSE c.dirPath \o <<"/">> \o c.fileName

\* sha3.Sum256 printed with %x: one digest per input, and no two inputs of
\* the model share a digest
Sum256(bytes) == [sha3 |-> bytes]

\* ActionArmorConfigFile.Hash
Hash(c) == Sum256(<<c.source>> \o FilePathOf(c))

\* ReadLintOptions(config)
ReadLintOptions(c) ==
    IF c.content = 0
    THEN [failed |-> TRUE, opts |-> <<>>]
    ELSE [failed |-> FALSE, opts |-> GetOptions(ContentPool[c.content])]

\* the flags' options first, the config's options after them
LintOptionsFlagsFirst(configOpts, flagOpts) == flagOpts \o configOpts

\* opts = append(opts, o...), for the config's options and then the flags'
LintOptions(configOpts, flagOpts) == configOpts \o flagOpts

ConfigInit ==
    /\ \E f \in 1..Len(FlagsPool), n \in 1..MaxWorkflows :
          \E cs \in [1..n -> 1..Len(ConfigPool)] :
             rule = [state |-> "run", flags |-> FlagsPool[f],
                     todo |-> [i \in 1..n |-> ConfigPool[cs[i]]],
                     configCache |-> <<>>, results |-> <<>>]
    /\ PipelineIdle

NextConfig == Head(rule.todo)

Cached(key) == {i \in 1..Len(rule.configCache) : rule.configCache[i].key = key}

\* one makeLintParams call of ToWorkflowLintInfo's loop.  A set that
\* NewWorkflowLintParams allocates gets the number of the call as identity.
MakeLintParamsCached ==
    /\ rule.state = "run"
    /\ rule.todo # <<>>
    /\ NextConfig # NilConfig
    /\ Cached(Hash(NextConfig)) # {}
    /\ LET e == rule.configCache[CHOOSE i \in Cached(Hash(NextConfig)) : TRUE]
       IN  rule' = [rule EXCEPT
                      !.todo = Tail(@),
                      !.results = Append(@, [config |-> NextConfig,
                                             key |-> Hash(NextConfig),
                                             params |-> e.params, inst |-> e.inst,
                                             hit |-> TRUE])]
    /\ UNCHANGED pipeVars

MakeLintParamsBuilt ==
    /\ rule.state = "run"
    /\ rule.todo # <<>>
    /\ IF NextConfig = NilConfig THEN TRUE
       ELSE Cached(Hash(NextConfig)) = {} /\ ~ReadLintOptions(NextConfig).failed
    /\ LET o      == IF NextConfig = NilConfig THEN <<>>
                     ELSE ReadLintOptions(NextConfig).opts
           params == NewWorkflowLintParams(
                         LintOptions(o, toWorkflowLintOptionsFromFlags(rule.flags)))
           inst   == Len(rule.results) + 1
       IN  rule' = [rule EXCEPT
                      !.todo = Tail(@),
                      !.configCache =
                          IF NextConfig = NilConfig THEN @
                          ELSE Append(@, [key |-> Hash(NextConfig), params |-> params,
                                          inst |-> inst]),
                      !.results = Append(@, [config |-> NextConfig,
                                             key |-> IF NextConfig = NilConfig
                                                     THEN Sum256(<<>>)
                                                     ELSE Hash(NextConfig),
                                             params |-> params, inst |-> inst,
                                             hit |-> FALSE])]
    /\ UNCHANGED pipeVars

\* ReadLintOptions fails: makeLintParams and ToWorkflowLintInfo return the
\* error
MakeLintParamsFails ==
    /\ rule.state = "run"
    /\ rule.todo # <<>>
    /\ NextConfig # NilConfig
    /\ Cached(Hash(NextConfig)) = {}
    /\ ReadLintOptions(NextConfig).failed
    /\ rule' = [rule EXCEPT !.state = "error"]
    /\ UNCHANGED pipeVars

ConfigNext == MakeLintParamsCached \/ MakeLintParamsBuilt \/ MakeLintParamsFails

SpecConfig == ConfigInit /\ [][ConfigNext]_vars

(***************************************************************************)
(* The command: Execute converts the workflows (ToWorkflowLintInfo, which  *)
(* uses configCache and remoteCache), calls LintWorkflowFilesContext with  *)
(* context.Background(), and main prints the violations (GetRepoID, which  *)
(* uses remoteCache).  rule is the state of the main goroutine outside     *)
(* the linter: cmd is where it is, k the workflow or violation it is at,   *)
(* at the cache it is using.                                               *)
(***************************************************************************)
\* the --config flag: none (each workflow's own config), or a file
MainConfigs == {ConfigPool[1], ConfigPool[2]}

\* the config of every project of the model
ProjectConfig == ConfigPool[4]

MainInit ==
    /\ \E c \in MainConfigs :
          rule = [cmd |-> "convert", k |-> 1, at |-> "idle", config |-> c,
                  configCache |-> {}, remoteCache |-> {}]
    /\ PipelineStart
    /\ caller = "files"

\* tmpConfig of ToWorkflowLintInfo's loop
TmpConfig == IF rule.config = NilConfig THEN ProjectConfig ELSE rule.config

\* ToWorkflowLintInfo's loop: makeLintParams looks the config up in
\* configCache
MakeLintParamsBegin ==
    /\ rule.cmd = "convert"
    /\ rule.at = "idle"
    /\ rule.k <= Len(wfLintInfoList)
    /\ rule' = [rule EXCEPT !.at = "configCache"]
    /\ UNCHANGED pipeVars

\* makeLintParams returns the cached set, or builds one and stores it;
\* GetRepoID looks the project up in remoteCache
GetRepoIDBegin ==
    /\ rule.cmd \in {"convert", "report"}
    /\ IF rule.cmd = "convert"
       THEN rule.at = "configCache"
       ELSE rule.at = "idle" /\ rule.k <= Len(lintErrors)
    /\ rule' = [rule EXCEPT
                  !.at = "remoteCache",
                  !.configCache = IF rule.cmd = "convert"
                                  THEN @ \cup {Hash(TmpConfig)} ELSE @]
    /\ UNCHANGED pipeVars

\* GetRepoID returns the cached identity, or runs git and stores what it
\* answers; the loop goes on to the next workflow or violation
GetRepoIDEnd ==
    /\ rule.at = "remoteCache"
    /\ rule' = [rule EXCEPT
                  !.at = "idle",
                  !.k = @ + 1,
                  !.remoteCache =
                      @ \cup {IF rule.cmd = "convert"
                              THEN wfLintInfoList[rule.k].info.Project.RootDir
                              ELSE lintErrors[rule.k].Project.RootDir}]
    /\ UNCHANGED pipeVars

\* Execute calls LintWorkflowFilesContext
LintBegin ==
    /\ rule.cmd = "convert"
    /\ rule.at = "idle"
    /\ rule.k > Len(wfLintInfoList)
    /\ rule' = [rule EXCEPT !.cmd = "lint"]
    /\ UNCHANGED pipeVars

\* LintWorkflowFilesContext has returned: main's loop over the violations
ReportBegin ==
    /\ rule.cmd = "lint"
    /\ mainPc = "returned"
    /\ rule' = [rule EXCEPT !.cmd = "report", !.k = 1]
    /\ UNCHANGED pipeVars

\* main returns
MainExit ==
    /\ rule.cmd = "report"
    /\ rule.at = "idle"
    /\ rule.k > Len(lintErrors)
    /\ rule' = [rule EXCEPT !.cmd = "exit"]
    /\ UNCHANGED pipeVars

\* LintWorkflowFilesContext is running
Linting == rule.cmd = "lint"

\* the steps of the main goroutine, of LintWorkflowFilesContext and of the
\* goroutines it starts, with a context that is never cancelled
MainNext ==
    \/ MakeLintParamsBegin
    \/ GetRepoIDBegin
    \/ GetRepoIDEnd
    \/ LintBegin
    \/ Linting /\ ReadFileFails
    \/ Linting /\ ParseFails
    \/ Linting /\ ParseSucceeds
    \/ Linting /\ StartTask
    \/ Linting /\ DispatchDone
    \/ Linting /\ FanIn
    \/ Linting /\ \E i \in 1..Len(tasks) : Eval(i)
    \/ Linting /\ \E i \in 1..Len(tasks) : Release(i)
    \/ Linting /\ \E i \in 1..Len(tasks) : Publish(i)
    \/ Linting /\ \E i \in 1..Len(tasks) : Abandon(i)
    \/ Linting /\ \E i \in 1..Len(fwd) : ChannelClosed(i)
    \/ Linting /\ CloseStream
    \/ Linting /\ \E i \in 1..Len(fwd) : Consume(i)
    \/ Linting /\ Return
    \/ ReportBegin
    \/ MainExit

\* the main goroutine runs while it can take a step
MainSpec ==
    /\ MainInit
    /\ [][MainNext]_vars
    /\ WF_vars(MakeLintParamsBegin \/ GetRepoIDBegin \/ GetRepoIDEnd \/ LintBegin)
    /\ WF_vars(ReportBegin \/ MainExit)

(***************************************************************************)
(* ListWorkflows (pkg/workflow/workflow.go): the workflows of the path     *)
(* arguments, each with its project and the project's config file.         *)
(***************************************************************************)
MaxPaths == 2

str_dotGithub == <<"/", ".", "g", "i", "t", "h", "u", "b">>
str_workflows == <<"/", "w", "o", "r", "k", "f", "l", "o", "w", "s">>
str_ciYaml == <<"c", "i", ".", "y", "a", "m", "l">>
str_ciYml == <<"c", "i", ".", "y", "m", "l">>
str_relYaml == <<"r", "e", "l", ".", "y", "a", "m", "l">>
str_notesTxt == <<"n", "o", "t", "e", "s", ".", "t", "x", "t">>
str_oldDir == <<"o", "l", "d">>

\* filepath.Join of a clean directory and a name
PathJoin(dir, name) == dir \o <<"/">> \o name

\* filepath.Ext of a base name: the suffix from the last dot
Ext(name) ==
    LET dots == {i \in 1..Len(name) : name[i] = "."}
    IN  IF dots = {} THEN <<>>
        ELSE SubSeq(name, CHOOSE i \in dots : \A j \in dots : j <= i, Len(name))

\* an error value: its message, and the sentinels errors.Is finds in it
NoError == [nil |-> TRUE]

NewError(msg, is) == [nil |-> FALSE, msg |-> msg, is |-> is]

\* fmt.Errorf(prefix + "%w", err)
Errorf(prefix, err) == NewError(<<prefix>> \o err.msg, err.is)

ErrConfigFileNotFound == NewError(<<"config file not found">>, {"ErrConfigFileNotFound"})

ErrorsIs(err, target) == ~err.nil /\ target \in err.is

DirEntry(name, isDir) == [name |-> name, isDir |-> isDir]

\* a project on disk: .github/actionarmor.yaml and .github/actionarmor.yml
\* are absent, a file, or a directory; .github/workflows can be read or not
NewProject(root, yaml, yml, content, listable, entries) ==
    [RootDir |-> root, yaml |-> yaml, yml |-> yml, content |-> content,
     listable |-> listable, entries |-> entries]

WorkflowsDir(proj) == proj.RootDir \o str_dotGithub \o str_workflows

\* no config file; both config files; a .yml file only; a directory named
\* actionarmor.yaml; no config file and a workflows directory that cannot be
\* read
ProjectPool ==
    <<NewProject(<<"/", "p">>, "none", "none", 0, TRUE,
              <<DirEntry(str_ciYaml, FALSE), DirEntry(str_oldDir, TRUE),
                DirEntry(str_notesTxt, FALSE), DirEntry(str_relYaml, FALSE)>>),
      NewProject(<<"/", "q">>, "file", "file", 2, TRUE, <<DirEntry(str_ciYml, FALSE)>>),
      NewProject(<<"/", "r">>, "none", "file", 3, TRUE, <<DirEntry(str_ciYaml, FALSE)>>),
      NewProject(<<"/", "s">>, "dir", "none", 0, TRUE, <<DirEntry(str_ciYaml, FALSE)>>),
      NewProject(<<"/", "t">>, "none", "none", 0, FALSE, <<>>)>>

\* a path argument: what os.Stat finds there, and what
\* actionlint.NewProjects().At finds for it: a project, no project (0), or
\* an error (-1)
Arg(path, stat, at) == [path |-> path, stat |-> stat, at |-> at]

ArgPool ==
    {Arg(ProjectPool[1].RootDir, "dir", 1),
     Arg(PathJoin(WorkflowsDir(ProjectPool[1]), str_ciYaml), "file", 1),
     Arg(ProjectPool[2].RootDir, "dir", 2),
     Arg(PathJoin(WorkflowsDir(ProjectPool[2]), str_ciYml), "file", 2),
     Arg(PathJoin(WorkflowsDir(ProjectPool[3]), str_ciYaml), "file", 3),
     Arg(ProjectPool[4].RootDir, "dir", 4),
     Arg(PathJoin(WorkflowsDir(ProjectPool[4]), str_ciYaml), "file", 4),
     Arg(ProjectPool[5].RootDir, "dir", 5),
     Arg(<<"/", "x">>, "dir", 0),
     Arg(<<"/", "x", "/", "a", ".", "y", "m", "l">>, "file", 0),
     Arg(<<"/", "y">>, "dir", -1),
     Arg(<<"/", "z">>, "missing", 0)}

\* common.IsFile
IsFile(arg) ==
    IF arg.stat = "missing"
    THEN [isFile |-> FALSE, err |-> NewError(<<"stat: no such file or directory">>, {})]
    ELSE [isFile |-> arg.stat # "dir", err |-> NoError]

\* actionlint.NewProjects().At(path)
At(arg) ==
    IF arg.at < 0
    THEN [proj |-> NilProject, err |-> NewError(<<"could not load project">>, {})]
    ELSE IF arg.at = 0
    THEN [proj |-> NilProject, err |-> NoError]
    ELSE [proj |-> ProjectPool[arg.at], err |-> NoError]

\* GetConfigFile: the first of .github/actionarmor.yaml and
\* .github/actionarmor.yml that is a file
GetConfigFile(proj) ==
    LET dir == proj.RootDir \o str_dotGithub
    IN  IF proj.yaml = "file"
        THEN [config |-> NewConfigFileFromFile(dir, str_toolYaml, proj.content),
              err |-> NoError]
        ELSE IF proj.yml = "file"
        THEN [config |-> NewConfigFileFromFile(dir, str_toolYml, proj.content),
              err |-> NoError]
        ELSE [config |-> NilConfig,
              err |-> NewError(ErrConfigFileNotFound.msg \o <<": path=">> \o <<dir>>,
                               ErrConfigFileNotFound.is)]

WorkflowInfo(path, proj, config) ==
    [FilePath |-> path, Project |-> proj, Config |-> config]

\* the workflow files among the entries of the workflows directory
RECURSIVE WorkflowsOf(_, _, _)
WorkflowsOf(entries, proj, config) ==
    IF entries = <<>> THEN <<>>
    ELSE LET entry == Head(entries)
             rest  == WorkflowsOf(Tail(entries), proj, config)
         IN  IF entry.isDir THEN rest
             ELSE IF Ext(entry.name) # <<".", "y", "a", "m", "l">>
                     /\ Ext(entry.name) # <<".", "y", "m", "l">>
             THEN rest
             ELSE <<WorkflowInfo(PathJoin(WorkflowsDir(proj), entry.name), proj, config)>>
                  \o rest

extractWorkflows(arg) ==
    LET at == At(arg)
        cf == GetConfigFile(at.proj)
    IN  IF ~at.err.nil
        THEN [workflows |-> <<>>, err |-> Errorf("failed to find project: ", at.err)]
        ELSE IF at.proj = NilProject
        THEN [workflows |-> <<>>,
              err |-> NewError(<<"failed to find project at ", arg.path>>, {})]
        ELSE IF ~cf.err.nil /\ ~ErrorsIs(cf.err, "ErrConfigFileNotFound")
        THEN [workflows |-> <<>>,
              err |-> Errorf("failed to get a config file path: ", cf.err)]
        ELSE IF ~at.proj.listable
        THEN [workflows |-> <<>>,
              err |-> NewError(<<"failed to read workflows directory: ",
                                 "permission denied">>, {})]
        ELSE [workflows |-> WorkflowsOf(at.proj.entries, at.proj, cf.config),
              err |-> NoError]

toWorkflowInfo(arg) ==
    LET at == At(arg)
        cf == GetConfigFile(at.proj)
    IN  IF ~at.err.nil
        THEN [workflow |-> NilConfig, err |-> Errorf("failed to find project: ", at.err)]
        ELSE IF at.proj = NilProject
        THEN [workflow |-> NilConfig,
              err |-> NewError(<<"failed to find project at ", arg.path>>, {})]
        ELSE IF ~cf.err.nil /\ ErrorsIs(cf.err, "ErrConfigFileNotFound")
        THEN [workflow |-> NilConfig,
              err |-> Errorf("failed to get a config file path: ", cf.err)]
        ELSE [workflow |-> WorkflowInfo(arg.path, at.proj, cf.config), err |-> NoError]

\* wfInfoMap[key] = workflow
MapSet(m, key, workflow) ==
    [k \in DOMAIN m \cup {key} |-> IF k = key THEN workflow ELSE m[k]]

RECURSIVE MapSetAll(_, _)
MapSetAll(m, workflows) ==
    IF workflows = <<>> THEN m
    ELSE MapSetAll(MapSet(m, Head(workflows).FilePath, Head(workflows)), Tail(workflows))

\* the orders in which `for _, workflow := range wfInfoMap` can visit the map
RangeOrders(m) ==
    {o \in [1..Cardinality(DOMAIN m) -> DOMAIN m] :
        \A i, j \in 1..Cardinality(DOMAIN m) : o[i] = o[j] => i = j}

ListInit ==
    /\ \E n \in 1..MaxPaths : \E paths \in [1..n -> ArgPool] :
          rule = [state |-> "run", paths |-> paths, k |-> 1, wfInfoMap |-> <<>>,
                  workflows |-> <<>>, err |-> NoError]
    /\ PipelineIdle

ListPath == rule.paths[rule.k]

ListRunning == rule.state = "run" /\ rule.k <= Len(rule.paths)

ListFail(err) == rule' = [rule EXCEPT !.state = "error", !.err = err]

\* common.IsFile fails
IsFileFails ==
    /\ ListRunning
    /\ ~IsFile(ListPath).err.nil
    /\ ListFail(Errorf("failed to check if the argument is a file: ", IsFile(ListPath).err))
    /\ UNCHANGED pipeVars

\* a file argument: wfInfoMap[path] = workflow
FileArgument ==
    /\ ListRunning
    /\ IsFile(ListPath).err.nil
    /\ IsFile(ListPath).isFile
    /\ toWorkflowInfo(ListPath).err.nil
    /\ rule' = [rule EXCEPT
                  !.k = @ + 1,
                  !.wfInfoMap = MapSet(@, ListPath.path, toWorkflowInfo(ListPath).workflow)]
    /\ UNCHANGED pipeVars

FileArgumentFails ==
    /\ ListRunning
    /\ IsFile(ListPath).err.nil
    /\ IsFile(ListPath).isFile
    /\ ~toWorkflowInfo(ListPath).err.nil
    /\ ListFail(toWorkflowInfo(ListPath).err)
    /\ UNCHANGED pipeVars

\* a directory argument: every workflow file of its project
DirArgument ==
    /\ ListRunning
    /\ IsFile(ListPath).err.nil
    /\ ~IsFile(ListPath).isFile
    /\ extractWorkflows(ListPath).err.nil
    /\ rule' = [rule EXCEPT
                  !.k = @ + 1,
                  !.wfInfoMap = MapSetAll(@, extractWorkflows(ListPath).workflows)]
    /\ UNCHANGED pipeVars

DirArgumentFails ==
    /\ ListRunning
    /\ IsFile(ListPath).err.nil
    /\ ~IsFile(ListPath).isFile
    /\ ~extractWorkflows(ListPath).err.nil
    /\ ListFail(Errorf("failed to extract workflow file paths: ",
                       extractWorkflows(ListPath).err))
    /\ UNCHANGED pipeVars

\* the loop is over: the values of the map, in the order of its iteration
ListReturn ==
    /\ rule.state = "run"
    /\ rule.k > Len(rule.paths)
    /\ \E o \in RangeOrders(rule.wfInfoMap) :
          rule' = [rule EXCEPT
                     !.state = "done",
                     !.workflows = [i \in DOMAIN o |-> rule.wfInfoMap[o[i]]]]
    /\ UNCHANGED pipeVars

ListNext ==
    \/ IsFileFails
    \/ FileArgument
    \/ FileArgumentFails
    \/ DirArgument
    \/ DirArgumentFails
    \/ ListReturn

SpecList == ListInit /\ [][ListNext]_vars

(***************************************************************************)
(* Properties of the rule chain, checked under SpecRule.                   *)
(***************************************************************************)
RuleDone == rule.state = "done" /\ rule.uses # NilUses

\* the reference of the evaluation, parsed
RuleParsed == ParseActionUses(rule.uses.Value)

\* the value has one "@" and parses
RuleParses ==
    /\ RuleDone
    /\ Len(Split(rule.uses.Value, "@")) = 2
    /\ ~RelPath(rule.info).failed
    /\ ~RuleParsed.failed

RuleParams == rule.info.Params

RuleOfficialExempt ==
    /\ Deref(RuleParams.ExcludeOfficialActions)
    /\ SliceContains(OfficialCreators, RuleParsed.action.Owner)

RuleCreatorExempt ==
    /\ ~isAllowlisted(RuleParsed.action, RuleParams).allowlisted
    /\ Deref(RuleParams.ExcludeVerifiedCreators)
    /\ SliceContains(actionsByVerifiedCreators, RepoID(RuleParsed.action))

\* the reference is not exempt, not allowlisted, not rejected as archived,
\* and the organization check passed
ReachesPinCheck ==
    /\ RuleParses
    /\ ~IsLocalReusableWorkflows(RuleParsed.action)
    /\ ~RuleOfficialExempt
    /\ ~isAllowlisted(RuleParsed.action, RuleParams).allowlisted
    /\ ~RuleCreatorExempt
    /\ ~rule.rem.archived.failed
    /\ ~(rule.rem.archived.isArchived /\ ~Deref(RuleParams.AllowArchivedRepo))
    /\ ~checkVerifiedOrg(RuleParsed.action.Owner, RuleParams, rule.rem).failed

\* C8: a reference that reaches the pin check with a ref that is not a SHA
\* gives, under enforce-pin-hash, one violation of kind Unpinned whose message
\* contains "expected=SHA, actual=<ref>", on the line of the uses token, at
\* column usesPos.Column + len(actionID) + 1; without enforce-pin-hash, ALLOW.
C8_UnpinnedAtRefColumn ==
    (ReachesPinCheck /\ ~IsSHA(RuleParsed.action.Ref)) =>
        IF Deref(RuleParams.EnforcePinHash)
        THEN /\ rule.out.err # Nil
             /\ rule.out.err.Kind = KindUnpinned
             /\ Contains(rule.out.err.Message,
                         str_expectedSHAActual \o RuleParsed.action.Ref)
             /\ rule.out.err.Line = rule.uses.Pos.Line
             /\ rule.out.err.Column
                    = rule.uses.Pos.Col + Len(RuleParsed.action.ID) + 1
        ELSE rule.out.err = Nil

C8_Witness ==
    /\ ReachesPinCheck
    /\ ~IsSHA(RuleParsed.action.Ref)
    /\ Deref(RuleParams.EnforcePinHash)
    /\ rule.out.err # Nil
    /\ rule.out.err.Kind = KindUnpinned
    /\ rule.out.err.Column > rule.uses.Pos.Col

RuleLookups ==
    {i \in 1..Len(rule.out.calls) :
        rule.out.calls[i].op \in {"isArchived", "user", "organization",
                                  "ResolveFromHash", "ResolveFromTag"}}

C10_ArchivedRejected ==
    (/\ RuleParses
     /\ ~IsLocalReusableWorkflows(RuleParsed.action)
     /\ ~isAllowlisted(RuleParsed.action, RuleParams).allowlisted
     /\ ~RuleCreatorExempt
     /\ ~rule.rem.archived.failed
     /\ rule.rem.archived.isArchived
     /\ ~Deref(RuleParams.AllowArchivedRepo))
    => /\ rule.out.err # Nil
       /\ rule.out.err.Kind = KindArchivedActionUsed
       /\ rule.out.err.Line = rule.uses.Pos.Line
       /\ rule.out.err.Column = rule.uses.Pos.Col

(***************************************************************************)
(* Properties of the pipeline, checked under Spec.                         *)
(***************************************************************************)
Count(seq, e) == Cardinality({i \in DOMAIN seq : seq[i] = e})

\* the same elements, each as many times
SameBag(s, t) ==
    /\ Len(s) = Len(t)
    /\ \A i \in DOMAIN s : Count(s, s[i]) = Count(t, s[i])

\* the lint errors the tasks produced, by channel
Produced == Flatten([i \in 1..Len(tasks) |-> tasks[i].result.LintErrors])

\* the runtime errors the tasks produced, by channel
ProducedRuntimeErrors ==
    Flatten([i \in 1..Len(tasks) |->
                IF tasks[i].result.RuntimeError # NilErr
                THEN <<tasks[i].result.RuntimeError>> ELSE <<>>])

FilesReturned == caller = "files" /\ mainPc = "returned"

\* C1: when LintWorkflowFilesContext returns, every step of every file has
\* run as a task, every task has ended, and the returned list holds every
\* lint error the tasks produced exactly as many times as it was produced.
C1_EveryViolationOnce ==
    FilesReturned =>
        /\ Len(tasks) = TotalTasks(wfLintInfoList)
        /\ \A i \in 1..Len(tasks) : tasks[i].pc = "exit"
        /\ SameBag(lintErrors, Produced)

C1_Witness ==
    /\ FilesReturned
    /\ Len(wfLintInfoList) = 2
    /\ Len(lintErrors) = 3
    /\ lintErrors[1].WorkflowAbsFilePath = PathOf(2)
    /\ lintErrors[3].WorkflowAbsFilePath = PathOf(1)

\* C2 as stated: the returned list holds no entry of kind RuntimeError, and
\* every runtime failure is logged.
C2_NoRuntimeErrorReturned ==
    FilesReturned =>
        \A i \in 1..Len(lintErrors) : lintErrors[i].Kind # KindRuntimeError

\* C2: the Results that carry a RuntimeError (the parse failures) are logged
\* once each and add nothing to the returned list; a collaborator failure
\* during rule evaluation is a lint error of kind RuntimeError, and is
\* returned, not logged.
C2_ParseFailuresLoggedOnly ==
    FilesReturned =>
        /\ SameBag(logged, ProducedRuntimeErrors)
        /\ \A i \in 1..Len(tasks) :
              tasks[i].kind = "parseErr" =>
                 \A k \in 1..Len(lintErrors) :
                    lintErrors[k].WorkflowAbsFilePath
                        # wfLintInfoList[tasks[i].file].info.FilePath
        /\ \A i \in 1..Len(tasks) :
              \A k \in 1..Len(tasks[i].result.LintErrors) :
                 tasks[i].result.LintErrors[k].Kind = KindRuntimeError =>
                    /\ Count(lintErrors, tasks[i].result.LintErrors[k]) = 1
                    /\ \A j \in 1..Len(logged) :
                          logged[j].msg # tasks[i].result.LintErrors[k].Message

C2_Witness ==
    /\ FilesReturned
    /\ Len(logged) = 1
    /\ \E i \in 1..Len(lintErrors) : lintErrors[i].Kind = KindRuntimeError

\* Scenario C: one workflow, two steps, enforce-pin-hash
ScenarioC ==
    /\ Len(wfLintInfoList) = 1
    /\ wfLintInfoList[1].readErr = <<>>
    /\ wfLintInfoList[1].parseErrors = <<>>
    /\ wfLintInfoList[1].Jobs = TwoSteps.Jobs
    /\ Deref(wfLintInfoList[1].info.Params.EnforcePinHash)

\* C3: in Scenario C the caller ends with exactly two entries, one of kind
\* RuntimeError and one of kind Unpinned, whichever task completes first.
C3_ScenarioCTwoEntries ==
    (ScenarioC /\ mainPc = "returned") =>
        /\ Len(lintErrors) = 2
        /\ {lintErrors[1].Kind, lintErrors[2].Kind} = {KindRuntimeError, KindUnpinned}
        /\ logged = <<>>

\* the second step's entry arrives first
C3_Witness ==
    /\ ScenarioC
    /\ mainPc = "returned"
    /\ Len(lintErrors) = 2
    /\ lintErrors[1].Kind = KindUnpinned
    /\ lintErrors[2].Kind = KindRuntimeError

\* C4 as stated: a failure that concerns one file (here: the file cannot be
\* read) does not abort LintWorkflowFilesContext.
C4_FailureDoesNotAbort ==
    caller = "files" => mainPc # "panicked"

\* the tasks of a file that are running the rule chain
Evaluating(f) == {i \in 1..Len(tasks) : tasks[i].file = f /\ tasks[i].pc = "eval"}

\* the tasks of a file that hold a slot
Holding(f) ==
    {i \in 1..Len(tasks) : tasks[i].file = f /\ tasks[i].pc \in {"eval", "release"}}

\* C5: per LintWorkflowContext call, at most NumWorkers tasks run the rule
\* chain, and the limiter's count is the slots held: never below zero (a
\* release without an acquire), never above NumWorkers.
C5_WorkersBounded ==
    \A f \in 1..Len(wfLintInfoList) :
        /\ Cardinality(Evaluating(f)) <= numWorkers
        /\ sem[f] = Cardinality(Holding(f))
        /\ sem[f] >= 0
        /\ sem[f] <= numWorkers

\* the caller waits for a slot while a task runs the rule chain
C5_Witness ==
    /\ mainPc = "dispatch"
    /\ stepsLeft # <<>>
    /\ numWorkers = 1
    /\ sem[fileIdx] = numWorkers
    /\ Cardinality(Evaluating(fileIdx)) = 1

\* C6 as stated: a cancelled wait for a slot is aborted and
\* LintWorkflowContext goes on to return; it is never stuck.
C6_CancelledAcquireReturns ==
    mainPc # "blocked"

\* C7 as stated: with done closed, a task that is trying to publish ends
\* without handing its Result to anyone.
C7_TaskAbandonsPublish ==
    [][\A i \in 1..Len(tasks) :
          (doneClosed /\ tasks[i].pc = "publish" /\ tasks'[i].pc = "exit")
              => fwd' = fwd]_vars

\* C7: with done closed, a task that is trying to publish (the parse-failure
\* goroutine too) can always end and ends with its channel closed, and no
\* Result reaches the caller any more: the task drops its Result, or the
\* multiplex goroutine already waiting on the channel takes it and drops it.
C7_TaskExitsResultNotDelivered ==
    [][/\ doneClosed => (lintErrors' = lintErrors /\ logged' = logged)
       /\ \A i \in 1..Len(tasks) :
             (doneClosed /\ tasks[i].pc = "publish") =>
                 /\ ENABLED Abandon(i)
                 /\ tasks'[i].pc \in {"publish", "exit"}]_vars

C7_Witness ==
    /\ doneClosed
    /\ fanInCalled
    /\ \E i \in 1..Len(tasks) :
          /\ tasks[i].kind = "parseErr"
          /\ tasks[i].pc = "publish"
          /\ fwd[i].pc = "recv"

(***************************************************************************)
(* More properties of the rule chain, checked under SpecRule.              *)
(***************************************************************************)
RuleAllowlisted == isAllowlisted(RuleParsed.action, RuleParams).allowlisted

\* the reference is neither exempt nor allowlisted
RuleReachesArchivedRule ==
    /\ RuleParses
    /\ ~IsLocalReusableWorkflows(RuleParsed.action)
    /\ ~RuleOfficialExempt
    /\ ~RuleAllowlisted
    /\ ~RuleCreatorExempt

RuleAtUsesPos ==
    /\ rule.out.err.Line = rule.uses.Pos.Line
    /\ rule.out.err.Column = rule.uses.Pos.Col

\* C11: a reference that is neither exempt nor allowlisted and whose
\* repository is archived gives, under allow-archived-repo=false, one
\* violation of kind KindArchivedActionUsed at the start of the uses value
\* whose message includes the repo-ID and the archive date; under
\* allow-archived-repo=true the archived rule gives no violation.
C11_ArchivedViolation ==
    (/\ RuleReachesArchivedRule
     /\ ~rule.rem.archived.failed
     /\ rule.rem.archived.isArchived)
    => IF ~Deref(RuleParams.AllowArchivedRepo)
       THEN /\ rule.out.err # Nil
            /\ rule.out.err.Kind = KindArchivedActionUsed
            /\ Contains(rule.out.err.Message, RepoID(RuleParsed.action))
            /\ Contains(rule.out.err.Message, rule.rem.archived.archivedAt)
            /\ RuleAtUsesPos
       ELSE \/ rule.out.err = Nil
            \/ ~Contains(rule.out.err.Message, fmt_archivedFound)

\* the allowlist condition, on the inputs
AllowlistedByInputs ==
    LET a == RuleParsed.action
        entries == GetHashAllowlist(RuleParams, a).items
    IN  \/ SliceContains(RuleParams.CreatorAllowlist.items, a.Owner)
        \/ SliceContains(RuleParams.ActionAllowlist.items, RepoID(a))
        \/ /\ IsSHA(a.Ref)
           /\ \E i \in 1..Len(entries) : entries[i].SHA = a.Ref

\* not local, not an exempt official action, not an exempt verified creator
RuleNotExempt ==
    /\ RuleParses
    /\ ~IsLocalReusableWorkflows(RuleParsed.action)
    /\ ~RuleOfficialExempt
    /\ ~(/\ ~AllowlistedByInputs
         /\ Deref(RuleParams.ExcludeVerifiedCreators)
         /\ SliceContains(actionsByVerifiedCreators, RepoID(RuleParsed.action)))

\* no archived-status and no organization lookup was made
RuleSkippedChecks ==
    \A i \in 1..Len(rule.out.calls) :
        rule.out.calls[i].op \notin {"isArchived", "user", "organization", "isVerified"}

\* the tag lookup that the allowlist rule makes for the reference fails
RuleRefLookupFails ==
    IF IsSHA(RuleParsed.action.Ref)
    THEN ResolveFromHashContext(rule.rem, Repository(RuleParsed.action),
                                RuleParsed.action.Ref).failed
    ELSE rule.rem.fromTag.failed

\* C12 as stated: a non-exempt reference is allowed without the archived,
\* organization and pin checks iff it is allowlisted by creator, by action
\* or by its pinned SHA.
C12_AllowlistedIffAllowed ==
    RuleNotExempt =>
        (AllowlistedByInputs <=> (rule.out.err = Nil /\ RuleSkippedChecks))

\* C12: a non-exempt reference skips the archived, organization and pin
\* checks iff it is allowlisted by creator, by action or by its pinned SHA;
\* the rule then looks up the reference's tag (or the tags of its SHA) once,
\* and the outcome is ALLOW when that lookup succeeds and a RuntimeError
\* violation at the uses position when it fails.  An allowlisted action does
\* not allowlist another repository of its owner.
C12_AllowlistedSkipsChecks ==
    RuleNotExempt =>
        /\ AllowlistedByInputs <=> RuleSkippedChecks
        /\ AllowlistedByInputs =>
              /\ Len(rule.out.calls) = 1
              /\ rule.out.calls[1].op \in {"ResolveFromHash", "ResolveFromTag"}
              /\ IF RuleRefLookupFails
                 THEN /\ rule.out.err # Nil
                      /\ rule.out.err.Kind = KindRuntimeError
                      /\ RuleAtUsesPos
                 ELSE rule.out.err = Nil
        /\ (/\ rule.uses.Value = uses_gcloud
            /\ RuleParams.ActionAllowlist.items = <<str_googleAuth>>
            /\ RuleParams.CreatorAllowlist.items = <<>>)
           => (~AllowlistedByInputs /\ ~RuleSkippedChecks)

\* google-github-actions/auth@v2, allowlisted as an action, is allowed under
\* enforce-pin-hash although its repository is archived
C12_Witness ==
    /\ RuleNotExempt
    /\ rule.uses.Value = uses_gauth
    /\ RuleParams.ActionAllowlist.items = <<str_googleAuth>>
    /\ Deref(RuleParams.EnforcePinHash)
    /\ ~Deref(RuleParams.AllowArchivedRepo)
    /\ ~rule.rem.archived.failed
    /\ rule.rem.archived.isArchived
    /\ rule.out.err = Nil
    /\ RuleSkippedChecks

RuleHashEntries == GetHashAllowlist(RuleParams, RuleParsed.action).items

RuleShaInAllowlist ==
    \E i \in 1..Len(RuleHashEntries) : RuleHashEntries[i].SHA = RuleParsed.action.Ref

\* the tags of the reference's SHA resolve
RuleRefResolves ==
    ~ResolveFromHashContext(rule.rem, Repository(RuleParsed.action),
                            RuleParsed.action.Ref).failed

\* the tags of every entry of the reference's hash allowlist resolve
RuleEntriesResolve ==
    \A i \in 1..Len(RuleHashEntries) :
        ~ResolveFromHashContext(rule.rem, Repository(RuleParsed.action),
                                RuleHashEntries[i].SHA).failed

KindShaNotAllowlisted == "SHA is not allowlisted"

\* C13 as stated: a SHA-pinned reference that reaches the hash rule and whose
\* tags resolve gives the violation 'SHA is not allowlisted' when
\* allow-only-allowlisted-hash is set and the SHA is not in the hash
\* allowlist, and ALLOW otherwise; a SHA-pinned reference whose SHA is in the
\* hash allowlist is allowed under allow-only-allowlisted-hash.
C13_HashRuleOutcome ==
    /\ (ReachesPinCheck /\ IsSHA(RuleParsed.action.Ref) /\ RuleRefResolves) =>
          IF Deref(RuleParams.AllowOnlyAllowlistedHash) /\ ~RuleShaInAllowlist
          THEN /\ rule.out.err # Nil
               /\ rule.out.err.Kind = KindShaNotAllowlisted
          ELSE rule.out.err = Nil
    /\ (/\ RuleParses
        /\ IsSHA(RuleParsed.action.Ref)
        /\ RuleShaInAllowlist
        /\ RuleRefResolves
        /\ Deref(RuleParams.AllowOnlyAllowlistedHash)) => rule.out.err = Nil

\* C13: as stated, when the tags of every entry of the hash allowlist
\* resolve too; when the lookup of an entry fails the outcome is a
\* RuntimeError violation instead.  Both are reported at the ref's position.
C13_HashRuleOutcomeResolved ==
    /\ (ReachesPinCheck /\ IsSHA(RuleParsed.action.Ref) /\ RuleRefResolves) =>
          IF Deref(RuleParams.AllowOnlyAllowlistedHash) /\ ~RuleShaInAllowlist
          THEN /\ rule.out.err # Nil
               /\ rule.out.err.Kind = IF RuleEntriesResolve
                                      THEN KindShaNotAllowlisted
                                      ELSE KindRuntimeError
               /\ rule.out.err.Line = rule.uses.Pos.Line
               /\ rule.out.err.Column
                      = rule.uses.Pos.Col + Len(RuleParsed.action.ID) + 1
          ELSE rule.out.err = Nil
    /\ (/\ RuleParses
        /\ IsSHA(RuleParsed.action.Ref)
        /\ RuleShaInAllowlist
        /\ RuleRefResolves
        /\ Deref(RuleParams.AllowOnlyAllowlistedHash)) => rule.out.err = Nil

\* a resolvable pinned SHA, not among the (resolvable) entries of its action
C13_Witness ==
    /\ ReachesPinCheck
    /\ IsSHA(RuleParsed.action.Ref)
    /\ RuleRefResolves
    /\ RuleHashEntries # <<>>
    /\ RuleEntriesResolve
    /\ Deref(RuleParams.AllowOnlyAllowlistedHash)
    /\ rule.out.err # Nil
    /\ rule.out.err.Kind = KindShaNotAllowlisted

\* the user query answers that the login is no user: without an error, or
\* with GitHub's "Could not resolve to a User" error
RuleUserNotFound ==
    \/ ~rule.rem.user.failed /\ ~rule.rem.user.found
    \/ rule.rem.user.failed /\ Contains(rule.rem.user.msg, str_couldNotResolveTo)

\* the organization check is satisfied: the login is a user, or it is a
\* verified organization
RuleOrgSatisfied ==
    \/ ~rule.rem.user.failed /\ rule.rem.user.found
    \/ /\ RuleUserNotFound
       /\ ~rule.rem.org.failed /\ rule.rem.org.found
       /\ ~rule.rem.verified.failed /\ rule.rem.verified.isVerified

\* the reference reaches the organization rule
RuleReachesOrgRule ==
    /\ RuleReachesArchivedRule
    /\ ~rule.rem.archived.failed
    /\ ~(rule.rem.archived.isArchived /\ ~Deref(RuleParams.AllowArchivedRepo))

RuleOrgCalls ==
    {i \in 1..Len(rule.out.calls) :
        rule.out.calls[i].op \in {"user", "organization", "isVerified"}}

\* C14: under enforce-verified-org a reference that reaches the organization
\* rule passes it when the owner is a user (or a verified organization); a
\* failed lookup, an organization that is not found and an organization that
\* is not verified give a RuntimeError violation at the uses position.
\* Without enforce-verified-org no organization lookup is made.
C14_VerifiedOrgRule ==
    RuleReachesOrgRule =>
        IF Deref(RuleParams.EnforceVerifiedOrganization)
        THEN IF RuleOrgSatisfied
             THEN /\ RuleOrgCalls # {}
                  /\ rule.out.err = lintPin(RuleParsed.action, rule.uses,
                                            RelPath(rule.info).path, rule.info,
                                            rule.rem, <<>>).err
             ELSE /\ rule.out.err # Nil
                  /\ rule.out.err.Kind = KindRuntimeError
                  /\ RuleAtUsesPos
        ELSE RuleOrgCalls = {}

\* an owner that is an organization GitHub does not report as verified
C14_Witness ==
    /\ RuleReachesOrgRule
    /\ Deref(RuleParams.EnforceVerifiedOrganization)
    /\ RuleUserNotFound
    /\ ~rule.rem.org.failed /\ rule.rem.org.found
    /\ ~rule.rem.verified.failed /\ ~rule.rem.verified.isVerified
    /\ rule.out.err # Nil
    /\ rule.out.err.Kind = KindRuntimeError
    /\ Cardinality(RuleOrgCalls) = 3

\* the remote call errored.  GitHub's "Could not resolve to a User" on the
\* user query is the answer "no such user", not an error of the call.
CallErrored(c) ==
    CASE c.op = "isArchived" -> rule.rem.archived.failed
      [] c.op = "user" ->
            /\ rule.rem.user.failed
            /\ ~Contains(rule.rem.user.msg, str_couldNotResolveTo)
      [] c.op = "organization" -> rule.rem.org.failed
      [] c.op = "isVerified" -> rule.rem.verified.failed
      [] c.op = "ResolveFromHash" ->
            ResolveFromHashContext(rule.rem, Repository(RuleParsed.action), c.arg).failed
      [] c.op = "ResolveFromTag" -> rule.rem.fromTag.failed

\* C15: when a remote call made for a reference errors, the outcome is one
\* violation of kind RuntimeError; the failed call is the last call made and
\* no call is made twice.
C15_RemoteErrorIsRuntimeError ==
    RuleDone =>
        \A i \in 1..Len(rule.out.calls) :
            CallErrored(rule.out.calls[i]) =>
                /\ rule.out.err # Nil
                /\ rule.out.err.Kind = KindRuntimeError
                /\ i = Len(rule.out.calls)
                /\ \A j \in 1..Len(rule.out.calls) :
                      j # i => rule.out.calls[j] # rule.out.calls[i]

\* the tag lookup of an allowlist entry fails after the lookup of the
\* reference's own SHA succeeded
C15_Witness ==
    /\ RuleDone
    /\ Len(rule.out.calls) >= 3
    /\ rule.out.calls[Len(rule.out.calls)].op = "ResolveFromHash"
    /\ rule.out.calls[Len(rule.out.calls)].arg # RuleParsed.action.Ref
    /\ CallErrored(rule.out.calls[Len(rule.out.calls)])
    /\ rule.out.err # Nil
    /\ rule.out.err.Kind = KindRuntimeError

(***************************************************************************)
(* The parser and the rule chain on generated uses values                  *)
(***************************************************************************)
\* the number of "@" in a string, counted character by character
CountAt(s) == Cardinality({i \in 1..Len(s) : s[i] = "@"})

\* C16: a uses value without "@" is allowed under every parameter set, and
\* no remote service is called for it
C16_NoAtAllowed ==
    (RuleDone /\ CountAt(rule.uses.Value) = 0)
        => (rule.out.err = Nil /\ rule.out.calls = <<>>)

\* a local workflow path evaluated under the strictest flags while every
\* service is down
C16_Witness ==
    /\ RuleDone
    /\ rule.uses.Value = str_localWorkflowPrefix
    /\ CountAt(rule.uses.Value) = 0
    /\ ~Deref(RuleParams.AllowArchivedRepo)
    /\ Deref(RuleParams.EnforcePinHash)
    /\ Deref(RuleParams.EnforceVerifiedOrganization)
    /\ Deref(RuleParams.AllowOnlyAllowlistedHash)
    /\ rule.rem.fromTag = ResolverDown.fromTag
    /\ rule.out.err = Nil
    /\ rule.out.calls = <<>>

\* the parser has been applied to the generated value
Parsed == rule.state = "parsed"

\* C17, as stated: the parser does not fail on a string without "@"
C17_ParserAcceptsNoAt ==
    (Parsed /\ CountAt(rule.uses.Value) = 0) => ~rule.out.failed

\* C17, amended: on a string without "@" the parser fails, with no reference
\* and the error "unexpected 'uses' value: " followed by the trimmed string
C17_ParserRejectsNoAt ==
    (Parsed /\ CountAt(rule.uses.Value) = 0)
        => /\ rule.out.failed
           /\ rule.out.action = NilAction
           /\ rule.out.err = fmt_unexpectedUses \o TrimSpace(rule.uses.Value)

\* "o/r" has no "@" and is rejected
C17_Witness ==
    /\ Parsed
    /\ rule.uses.Value = <<"o", "/", "r">>
    /\ CountAt(rule.uses.Value) = 0
    /\ rule.out.failed

\* the generated value without its leading and trailing white space, taken
\* between its first and its last character that is not white space
Trimmed ==
    LET s  == rule.uses.Value
        ns == {i \in 1..Len(s) : ~IsSpace(s[i])}
    IN  IF ns = {} THEN <<>>
        ELSE SubSeq(s, CHOOSE i \in ns : \A j \in ns : i <= j,
                       CHOOSE i \in ns : \A j \in ns : j <= i)

\* the positions of a character in a string
Positions(s, c) == {i \in 1..Len(s) : s[i] = c}

\* the text before and after the one "@" of the trimmed value
BeforeAt == SubSeq(Trimmed, 1, (CHOOSE i \in Positions(Trimmed, "@") : TRUE) - 1)

AfterAt ==
    SubSeq(Trimmed, (CHOOSE i \in Positions(Trimmed, "@") : TRUE) + 1, Len(Trimmed))

\* the ends of the first two "/"-separated parts of the text before the "@"
FirstSlash ==
    CHOOSE i \in Positions(BeforeAt, "/") : \A j \in Positions(BeforeAt, "/") : i <= j

SecondEnd ==
    LET later == {i \in Positions(BeforeAt, "/") : i > FirstSlash}
    IN  IF later = {} THEN Len(BeforeAt) + 1
        ELSE CHOOSE i \in later : \A j \in later : i <= j

\* the trimmed value has one "@" and a "/" before it
WellFormed ==
    /\ Cardinality(Positions(Trimmed, "@")) = 1
    /\ Positions(BeforeAt, "/") # {}

\* C18: the parser succeeds exactly on a trimmed value with one "@" whose
\* text before the "@" has at least two "/"-separated parts; then ID is all
\* the text before the "@", Owner its first part, Name its second part and
\* Ref the text after the "@"; otherwise there is no reference and an error
C18_ParseContract ==
    Parsed =>
        /\ ~rule.out.failed <=> WellFormed
        /\ WellFormed =>
              /\ rule.out.action # NilAction
              /\ rule.out.action.ID = BeforeAt
              /\ rule.out.action.Owner = SubSeq(BeforeAt, 1, FirstSlash - 1)
              /\ rule.out.action.Name = SubSeq(BeforeAt, FirstSlash + 1, SecondEnd - 1)
              /\ rule.out.action.Ref = AfterAt
              /\ rule.out.err = <<>>
        /\ ~WellFormed =>
              /\ rule.out.action = NilAction
              /\ rule.out.err # <<>>

\* "o/r/p@v " parses: the padding is gone and the sub-path stays in the ID
C18_Witness ==
    /\ Parsed
    /\ rule.uses.Value = <<"o", "/", "r", "/", "p", "@", "v", " ">>
    /\ ~rule.out.failed
    /\ rule.out.action.ID = <<"o", "/", "r", "/", "p">>
    /\ rule.out.action.Owner = <<"o">>
    /\ rule.out.action.Name = <<"r">>
    /\ rule.out.action.Ref = <<"v">>

\* C19: a uses value of three or more "@"-separated segments does not parse,
\* and the rule chain answers it with one violation of kind
\* KindUnexpectedValue at the position of the uses token, calling no service
C19_ManySegmentsRejected ==
    (RuleDone /\ CountAt(rule.uses.Value) >= 2)
        => /\ ParseActionUses(rule.uses.Value).failed
           /\ rule.out.err # Nil
           /\ rule.out.err.Kind = KindUnexpectedValue
           /\ RuleAtUsesPos
           /\ rule.out.calls = <<>>

\* "o/r@a@a" at a token that is not at the start of its line
C19_Witness ==
    /\ RuleDone
    /\ rule.uses.Value = <<"o", "/", "r", "@", "a", "@", "a">>
    /\ rule.uses.Pos.Col > 1
    /\ rule.out.err # Nil
    /\ rule.out.err.Kind = KindUnexpectedValue
    /\ rule.out.err.Column = rule.uses.Pos.Col

\* C20: a reference the parser builds comes from a string with one "@" and
\* has an owner and a name that are not empty
C20_ReferenceWellFormed ==
    (Parsed /\ ~rule.out.failed)
        => /\ CountAt(rule.uses.Value) = 1
           /\ rule.out.action.Owner # <<>>
           /\ rule.out.action.Name # <<>>

(***************************************************************************)
(* Properties of the parameter set, checked under SpecParams.              *)
(***************************************************************************)
ParamsBuilt == rule.state \in {"built", "looked"}

\* an option of the given name has been applied
OptionApplied(name) ==
    \E i \in 1..Len(rule.applied) : OptionPool[rule.applied[i]].opt = name

\* the documented defaults of the flags (README, LINTER FLAGS)
DocumentedDefaults ==
    [ExcludeOfficialActions      |-> TRUE,
     ExcludeVerifiedCreators     |-> FALSE,
     AllowOnlyAllowlistedHash    |-> FALSE,
     AllowArchivedRepo           |-> TRUE,
     EnforcePinHash              |-> TRUE,
     EnforceVerifiedOrganization |-> FALSE]

\* C21: in the set NewWorkflowLintParams returns, every flag is set, a flag
\* that no option set has its documented default, and an allowlist that no
\* option set is empty and not nil
C21_DefaultsFilled ==
    ParamsBuilt =>
        /\ \A name \in DOMAIN DocumentedDefaults :
              /\ rule.out[name] # NilPtr
              /\ ~OptionApplied(name) => rule.out[name] = <<DocumentedDefaults[name]>>
        /\ ~OptionApplied("CreatorAllowlist")
              => rule.out.CreatorAllowlist = [nil |-> FALSE, items |-> <<>>]
        /\ ~OptionApplied("ActionAllowlist")
              => rule.out.ActionAllowlist = [nil |-> FALSE, items |-> <<>>]
        /\ ~OptionApplied("HashAllowlist")
              => rule.out.HashAllowlist = [nil |-> FALSE, m |-> <<>>]

\* only enforce-pin-hash and allow-archived-repo were given
C21_Witness ==
    /\ rule.state = "built"
    /\ Len(rule.applied) = 2
    /\ OptionApplied("EnforcePinHash")
    /\ OptionApplied("AllowArchivedRepo")
    /\ rule.out.EnforcePinHash = <<FALSE>>
    /\ rule.out.AllowArchivedRepo = <<FALSE>>
    /\ rule.out.ExcludeOfficialActions = <<TRUE>>
    /\ rule.out.EnforceVerifiedOrganization = <<FALSE>>
    /\ rule.out.CreatorAllowlist = [nil |-> FALSE, items |-> <<>>]

\* the option a step of the loop applies
Applying == OptionPool[rule'.applied[Len(rule'.applied)]]

ParamsApplies == rule.state = "options" /\ rule'.state = "options" /\ rule' # rule

Elems(seq) == {seq[i] : i \in 1..Len(seq)}

NoDuplicates(seq) == \A i, j \in 1..Len(seq) : seq[i] = seq[j] => i = j

\* a list after an option merged v into it: the earlier entries first and
\* unchanged, then the entries of v that were missing, each once
Merged(before, after, v) ==
    /\ SubSeq(after.items, 1, Len(before.items)) = before.items
    /\ Elems(after.items) = Elems(before.items) \cup Elems(v)
    /\ NoDuplicates(after.items)

\* every field but the named one is as before
OnlyChanges(name) ==
    \A f \in DOMAIN rule.p : f # name => rule'.p[f] = rule.p[f]

\* applying the option once more changes nothing
AppliedTwiceIsOnce == ApplyOption(rule'.p, Applying) = rule'.p

\* C23, as stated: a hash-allowlist option too keeps the keys and entries
\* that earlier options set
C23_AllAllowlistsMerge ==
    [][(ParamsApplies /\ Applying.opt = "HashAllowlist")
          => \A key \in DOMAIN rule.p.HashAllowlist.m :
                /\ key \in DOMAIN rule'.p.HashAllowlist.m
                /\ Elems(rule.p.HashAllowlist.m[key].items)
                      \subseteq Elems(rule'.p.HashAllowlist.m[key].items)]_vars

\* C23, amended: every option applied twice gives what it gives applied
\* once; a creator- or action-allowlist option merges its entries into the
\* list (earlier entries kept, exact duplicates suppressed); a
\* hash-allowlist option replaces the map
C23_OptionsIdempotentListsMerge ==
    [][ParamsApplies =>
          /\ AppliedTwiceIsOnce
          /\ OnlyChanges(Applying.opt)
          /\ Applying.opt = "CreatorAllowlist"
                => Merged(rule.p.CreatorAllowlist, rule'.p.CreatorAllowlist, Applying.v)
          /\ Applying.opt = "ActionAllowlist"
                => Merged(rule.p.ActionAllowlist, rule'.p.ActionAllowlist, Applying.v)
          /\ Applying.opt = "HashAllowlist"
                => rule'.p.HashAllowlist = Applying.v]_vars

\* creators a, b were set; the option with b, c, c has added c once
C23_Witness ==
    /\ rule.state = "options"
    /\ Len(rule.applied) = 2
    /\ OptionPool[rule.applied[1]].opt = "CreatorAllowlist"
    /\ OptionPool[rule.applied[1]].v = <<<<"a">>, <<"b">>>>
    /\ OptionPool[rule.applied[2]].opt = "CreatorAllowlist"
    /\ OptionPool[rule.applied[2]].v = <<<<"b">>, <<"c">>, <<"c">>>>
    /\ rule.p.CreatorAllowlist.items = <<<<"a">>, <<"b">>, <<"c">>>>

\* the keys of the hash allowlist of the set that was built
HashKeys == DOMAIN rule.out.HashAllowlist.m

\* "owner/name" of the action looked up
LookupRepoKey == rule.action.Owner \o <<"/">> \o rule.action.Name

\* C24: GetHashAllowlist returns the list under the action ID when that key
\* exists, be the list empty; otherwise the list under the repo ID;
\* otherwise nil
C24_ActionKeyThenRepoKey ==
    rule.state = "looked" =>
        IF rule.action.ID \in HashKeys
        THEN rule.list = rule.out.HashAllowlist.m[rule.action.ID]
        ELSE IF LookupRepoKey \in HashKeys
             THEN rule.list = rule.out.HashAllowlist.m[LookupRepoKey]
             ELSE rule.list.nil

\* both keys exist and the list under the action ID is empty: it is returned
C24_Witness ==
    /\ rule.state = "looked"
    /\ rule.action.ID # LookupRepoKey
    /\ rule.action.ID \in HashKeys
    /\ LookupRepoKey \in HashKeys
    /\ rule.out.HashAllowlist.m[LookupRepoKey].items # <<>>
    /\ rule.list = [nil |-> FALSE, items |-> <<>>]

(***************************************************************************)
(* Properties of makeLintParams, checked under SpecConfig.                 *)
(***************************************************************************)
\* the command-line flag and the flag variable of each boolean parameter
FlagOf ==
    [ExcludeOfficialActions      |-> [flag |-> "exclude-official",
                                      var  |-> "ExcludeOfficialActions"],
     ExcludeVerifiedCreators     |-> [flag |-> "exclude-verified-creators",
                                      var  |-> "ExcludeVerifiedCreators"],
     AllowOnlyAllowlistedHash    |-> [flag |-> "only-allowlisted-hash",
                                      var  |-> "AllowOnlyAllowlistedHash"],
     AllowArchivedRepo           |-> [flag |-> "allow-archived-repo",
                                      var  |-> "AllowArchivedRepo"],
     EnforcePinHash              |-> [flag |-> "enforce-pin-hash",
                                      var  |-> "EnforcePinHash"],
     EnforceVerifiedOrganization |-> [flag |-> "enforce-verified-org",
                                      var  |-> "EnforceVerifiedOrg"]]

\* what the config file of a result holds
ConfigValues(r) ==
    IF r.config = NilConfig THEN ZeroWorkflowLintParams ELSE ContentPool[r.config.content]

\* the value of a boolean parameter by precedence: flag, config, default
Precedence(r, name) ==
    IF FlagOf[name].flag \in rule.flags.changed
    THEN rule.flags[FlagOf[name].var]
    ELSE IF ConfigValues(r)[name] # <<>>
         THEN ConfigValues(r)[name][1]
         ELSE DocumentedDefaults[name]

\* the result's set was made from its own config file: by this call, or by
\* an earlier call for the very same config
FromOwnConfig(i) ==
    \/ ~rule.results[i].hit
    \/ \E j \in 1..(i - 1) :
          /\ ~rule.results[j].hit
          /\ rule.results[j].inst = rule.results[i].inst
          /\ rule.results[j].config = rule.results[i].config

ContentOf(r) == ContentPool[r.config.content]

\* C25: two workflows whose config files have the same contents get the
\* same cache key and the same parameter-set instance, and two whose
\* contents differ get different keys
C25_CacheKeyedByContent ==
    \A i, j \in 1..Len(rule.results) :
        (rule.results[i].config # NilConfig /\ rule.results[j].config # NilConfig) =>
            /\ ContentOf(rule.results[i]) = ContentOf(rule.results[j])
                  => /\ rule.results[i].key = rule.results[j].key
                     /\ rule.results[i].inst = rule.results[j].inst
            /\ ContentOf(rule.results[i]) # ContentOf(rule.results[j])
                  => rule.results[i].key # rule.results[j].key

\* the path a config file was made from: its directory and its base name
LocatedAt(c) == c.fileSystem \o <<"/">> \o c.fileName

\* the call that built the parameter set a result carries
BuiltBy(i) ==
    CHOOSE j \in 1..i : ~rule.results[j].hit /\ rule.results[j].inst = rule.results[i].inst

\* C33: config files at different paths have different cache keys, and the
\* parameter set a workflow gets was built from the config file at its own
\* project's path
C33_KeyedByPath ==
    \A i, j \in 1..Len(rule.results) :
        (rule.results[i].config # NilConfig /\ rule.results[j].config # NilConfig) =>
            /\ LocatedAt(rule.results[i].config) # LocatedAt(rule.results[j].config)
                   => rule.results[i].key # rule.results[j].key
            /\ LocatedAt(rule.results[BuiltBy(i)].config) = LocatedAt(rule.results[i].config)

(***************************************************************************)
(* Properties of LintWorkflowContext, checked under Spec.                  *)
(***************************************************************************)
\* the files for which actionlint.Parse reports an error
ParseFailed ==
    {f \in 1..Len(wfLintInfoList) :
        wfLintInfoList[f].readErr = <<>> /\ wfLintInfoList[f].parseErrors # <<>>}

\* the goroutines (and channels) of a file
TasksOf(f) == {i \in 1..Len(tasks) : tasks[i].file = f}

\* LintWorkflowContext has returned for the file
Dispatched(f) == f < fileIdx

\* C26: for a file with a parse error LintWorkflowContext returns one
\* channel; its goroutine only ever publishes one Result, which has the
\* RuntimeError "failed to parse workflow: path=..." and no violation, and
\* then ends (it ends without publishing only once done is closed); no step
\* of the file is evaluated, so no slot is taken and no service is called;
\* LintWorkflowFilesContext ends with that one RuntimeError logged and no
\* entry for the file
C26_ParseFailureIsTerminal ==
    /\ [](\A f \in ParseFailed :
             /\ Cardinality(TasksOf(f)) = (IF Dispatched(f) THEN 1 ELSE 0)
             /\ sem[f] = 0
             /\ \A i \in TasksOf(f) :
                   /\ tasks[i].kind = "parseErr"
                   /\ tasks[i].pc \in {"publish", "exit"}
                   /\ tasks[i].result.LintErrors = <<>>
                   /\ tasks[i].result.RuntimeError # NilErr
                   /\ HasPrefix(tasks[i].result.RuntimeError.msg,
                                fmt_parseFailed \o wfLintInfoList[f].info.FilePath)
                   /\ FilesReturned =>
                         /\ Count(logged, tasks[i].result.RuntimeError) = 1
                         /\ \A k \in 1..Len(lintErrors) :
                               lintErrors[k].WorkflowAbsFilePath
                                   # wfLintInfoList[f].info.FilePath)
    /\ [][\A f \in ParseFailed : \A i \in TasksOf(f) :
             /\ (tasks[i].pc = "publish" /\ tasks'[i].pc = "exit")
                   => \/ doneClosed
                      \/ /\ fanInCalled
                         /\ fwd'[i] = [pc |-> "send", val |-> tasks[i].result]
             /\ tasks[i].pc = "exit" => tasks'[i] = tasks[i]]_vars

\* a file with a parse error and a step that was parsed, linted to the end
C26_Witness ==
    /\ FilesReturned
    /\ \E f \in ParseFailed :
          /\ Len(Flatten(wfLintInfoList[f].Jobs)) = 1
          /\ \E i \in TasksOf(f) : tasks[i].pc = "exit"
    /\ Len(logged) = 1
    /\ lintErrors = <<>>

\* the files that parse
ParseOk ==
    {f \in 1..Len(wfLintInfoList) :
        wfLintInfoList[f].readErr = <<>> /\ wfLintInfoList[f].parseErrors = <<>>}

\* the steps of all jobs of a file
StepsOf(f) == Flatten(wfLintInfoList[f].Jobs)

\* the steps of a file that execute an action
ActionStepsOf(f) == SelectSeq(StepsOf(f), LAMBDA s : s.Exec = "ExecAction")

\* the steps of the goroutines of a file, by channel
TaskStepsOf(f) ==
    LET ts == SelectSeq(tasks, LAMBDA t : t.file = f)
    IN  [k \in 1..Len(ts) |-> ts[k].step]

\* C27, as stated: of a file that parsed, the steps that execute an action
\* have one goroutine each and the other steps have none
C27_OneTaskPerActionStep ==
    \A f \in ParseOk :
        Dispatched(f) => SameBag(TaskStepsOf(f), ActionStepsOf(f))

\* C27, amended: of a file that parsed, every step of every job has one
\* goroutine and one channel, whatever the step executes; the goroutine of
\* a step that executes no action evaluates nothing and its Result is empty
C27_OneTaskPerStep ==
    \A f \in ParseOk :
        /\ Dispatched(f) => SameBag(TaskStepsOf(f), StepsOf(f))
        /\ \A i \in TasksOf(f) :
              /\ tasks[i].kind = "step"
              /\ tasks[i].step.Exec # "ExecAction" => tasks[i].result = NoResult

\* a run step and an action step: two goroutines
C27_Witness ==
    /\ \E f \in ParseOk :
          /\ Dispatched(f)
          /\ Len(StepsOf(f)) = 2
          /\ Len(ActionStepsOf(f)) = 1
          /\ Cardinality(TasksOf(f)) = 2
          /\ \E i \in TasksOf(f) : tasks[i].step = RunStep /\ tasks[i].pc = "exit"

\* a Result carries one kind of outcome, and at most one violation
OneOutcome(r) ==
    /\ Len(r.LintErrors) <= 1
    /\ ~(r.LintErrors # <<>> /\ r.RuntimeError # NilErr)

\* bufbuild/buf-action@v1.0.2, archived, under allow-archived-repo=false and
\* enforce-pin-hash=true: a reference that is archived and unpinned
ArchivedUnpinnedErrors ==
    stepLintErrors(
        ActionStep(uses_bufAction, 8),
        [InfoOf(1) EXCEPT !.Params = NewWorkflowLintParams(
                              <<WithAllowArchivedRepo(FALSE), WithEnforcePinHash(TRUE)>>)],
        Remote(Ok([isArchived |-> TRUE, archivedAt |-> str_date]), UserFound, ResolverUp))

\* C28: every Result of a goroutine, and every Result in flight, has
\* either violations or a RuntimeError, never both, and at most one
\* violation; a reference that is archived and unpinned gives the one
\* violation of the archived rule, which comes first
C28_OneOutcomePerResult ==
    /\ \A i \in 1..Len(tasks) : OneOutcome(tasks[i].result)
    /\ \A i \in 1..Len(fwd) : OneOutcome(fwd[i].val)
    /\ Len(ArchivedUnpinnedErrors) = 1
    /\ Contains(ArchivedUnpinnedErrors[1].Message, fmt_archivedFound)

\* one goroutine has published a violation, another a parse failure
C28_Witness ==
    /\ \E i \in 1..Len(tasks) :
          /\ tasks[i].pc = "exit"
          /\ Len(tasks[i].result.LintErrors) = 1
          /\ tasks[i].result.RuntimeError = NilErr
    /\ \E i \in 1..Len(tasks) :
          /\ tasks[i].pc = "exit"
          /\ tasks[i].result.LintErrors = <<>>
          /\ tasks[i].result.RuntimeError # NilErr
    /\ FilesReturned

\* the goroutines of a file that wait to publish
Publishing(f) ==
    {i \in TasksOf(f) : tasks[i].kind = "step" /\ tasks[i].pc = "publish"}

\* the step goroutines of a file
StepTasksOf(f) == {i \in TasksOf(f) : tasks[i].kind = "step"}

\* those that wait to publish or have ended
Released(f) == {i \in StepTasksOf(f) : tasks[i].pc \in {"publish", "exit"}}

\* C29: a goroutine that waits to publish holds no slot -- the slots taken
\* of a file's limiter are those of its goroutines that have not yet
\* reached their publish -- and nobody reads a channel while LintWorkflowContext
\* dispatches; still every dispatch that is not cancelled comes to its end,
\* however many steps the file has
C29_SlotReleasedBeforePublish ==
    /\ [](\A f \in 1..Len(wfLintInfoList) :
             /\ sem[f] + Cardinality(Released(f)) = Cardinality(StepTasksOf(f))
             /\ mainPc = "dispatch" => ~fanInCalled)
    /\ (mainPc = "dispatch") ~> (mainPc = "loop" \/ ctxDone)

\* one worker, two steps, nobody reading: both goroutines wait to publish
\* and LintWorkflowContext has returned
C29_Witness ==
    /\ numWorkers = 1
    /\ ~fanInCalled
    /\ ~ctxDone
    /\ \E f \in ParseOk :
          /\ Dispatched(f)
          /\ Len(StepsOf(f)) = 2
          /\ Cardinality(Publishing(f)) = 2
          /\ sem[f] = 0

\* the goroutines of all files that are running the rule chain
EvaluatingAll == {i \in 1..Len(tasks) : tasks[i].kind = "step" /\ tasks[i].pc = "eval"}

\* C30: every LintWorkflowContext call has a limiter of its own -- a call
\* whose own limiter has a free slot starts its next goroutine whatever the
\* goroutines of the other files hold -- so the goroutines running the rule
\* chain are bounded by NumWorkers per file only, not by NumWorkers
C30_LimiterPerCall ==
    /\ (/\ mainPc = "dispatch"
        /\ stepsLeft # <<>>
        /\ ~ctxDone
        /\ Cardinality(Holding(fileIdx)) < numWorkers) => ENABLED StartTask
    /\ Cardinality(EvaluatingAll) <= numWorkers * Len(wfLintInfoList)

\* two files, one worker: a goroutine of each file is running the rule chain
C30_Witness ==
    /\ caller = "files"
    /\ Len(wfLintInfoList) >= 2
    /\ Cardinality(EvaluatingAll) > numWorkers
    /\ \E f, g \in ParseOk : f # g /\ Evaluating(f) # {} /\ Evaluating(g) # {}

\* the multiplex goroutines that are offering a Result to the merged stream
Offering == {i \in 1..Len(fwd) : fwd[i].pc = "send"}

C31_SourceOrderReached ==
    /\ caller = "files"
    /\ mainPc = "returned"
    /\ Len(lintErrors) = 2
    /\ lintErrors[1].Line = 8
    /\ lintErrors[2].Line = 9

\* the goroutines besides the main goroutine that have not ended: step and
\* parse-failure goroutines, multiplex goroutines, fanIn's closer
Running ==
    {<<"task", i>> : i \in {j \in 1..Len(tasks) : tasks[j].pc # "exit"}}
    \cup {<<"multiplex", i>> : i \in {j \in 1..Len(fwd) : fwd[j].pc # "exit"}}
    \cup (IF fanInCalled /\ ~streamClosed THEN {<<"closer", 0>>} ELSE {})

\* the main goroutine is inside makeLintParams or GetRepoID
UsingCache == rule.at \in {"configCache", "remoteCache"}

\* C32 as stated: the command reaches a state in which a cache is in use
\* while another goroutine is running
C32_CachesRace ==
    <>(UsingCache /\ Running # {})

\* C32: configCache and remoteCache are unguarded maps, but only the main
\* goroutine uses them, and never while another goroutine exists: before
\* LintWorkflowFilesContext is called no goroutine has been started, and
\* when it has returned every goroutine it started has ended.  The context
\* is never cancelled and done is closed only when the caller returns or
\* panics, so the failing Acquire and the multiplex goroutines' done case,
\* which are left out of the command's steps, are never enabled.
C32_CachesUsedByMainAlone ==
    /\ [](UsingCache => Running = {})
    /\ [](rule.cmd # "lint" => Running = {})
    /\ [](mainPc = "returned" => Running = {})
    /\ [](~ctxDone /\ ~ENABLED AcquireFails)
    /\ [](\A i \in 1..Len(fwd) : ~ENABLED ForwardAbandon(i))
    /\ [][rule.configCache' # rule.configCache \/ rule.remoteCache' # rule.remoteCache
             => tasks = <<>> /\ ~fanInCalled]_vars

\* main looks a project up in remoteCache after the goroutines of two steps
\* have run and ended; both caches were filled before they started
C32_Witness ==
    /\ rule.cmd = "report"
    /\ rule.at = "remoteCache"
    /\ rule.configCache # {}
    /\ rule.remoteCache # {}
    /\ Len(tasks) >= 2
    /\ Len(fwd) >= 2
    /\ streamClosed

\* every goroutine that was started has ended and its channel is closed
AllTasksEnded == \A i \in 1..Len(tasks) : tasks[i].pc = "exit"

\* C34: with a context that is never cancelled, a channel carries at most
\* one Result (a goroutine that has published or ended stays ended), every
\* channel is eventually closed, the merged stream is eventually closed and
\* LintWorkflowFilesContext eventually returns
C34_FilesTerminate ==
    /\ [][\A i \in 1..Len(tasks) : tasks[i].pc = "exit" => tasks'[i].pc = "exit"]_vars
    /\ (caller = "files" /\ []~ctxDone)
          => <>(mainPc = "returned" /\ streamClosed /\ AllTasksEnded)

\* the same for lists of files that can all be read
C34_ReadableFilesTerminate ==
    /\ [][\A i \in 1..Len(tasks) : tasks[i].pc = "exit" => tasks'[i].pc = "exit"]_vars
    /\ (/\ caller = "files"
        /\ \A f \in 1..Len(wfLintInfoList) : wfLintInfoList[f].readErr = <<>>
        /\ []~ctxDone)
          => <>(mainPc = "returned" /\ streamClosed /\ AllTasksEnded)

\* every multiplex goroutine has ended
AllForwardersEnded == \A i \in 1..Len(fwd) : fwd[i].pc = "exit"

\* the consumer has stopped reading the merged stream
ConsumerStopped == mainPc = "stopped" /\ fanInCalled

\* C35: the consumer that stops reading has closed done, and from then on
\* every step, parse-failure and multiplex goroutine ends and the merged
\* stream is closed, whatever the goroutines were doing when it stopped
C35_StopReleasesEveryGoroutine ==
    /\ [](ConsumerStopped => doneClosed)
    /\ ConsumerStopped ~> (AllTasksEnded /\ AllForwardersEnded /\ streamClosed)

\* the consumer stopped without having received anything from a workflow
\* with two violating steps; both goroutines and both multiplex goroutines
\* have ended and the stream is closed
C35_Witness ==
    /\ ConsumerStopped
    /\ doneClosed
    /\ StepsOf(1) = Flatten(TwoSteps.Jobs)
    /\ Len(tasks) = 2
    /\ lintErrors = <<>>
    /\ logged = <<>>
    /\ AllTasksEnded
    /\ AllForwardersEnded
    /\ streamClosed

(***************************************************************************)
(* More properties of the rule chain, checked under SpecRule.              *)
(***************************************************************************)
\* allow-only-allowlisted-hash without enforce-pin-hash, and a reference
\* that is neither exempt nor allowlisted whose ref is not a SHA
TagUnderHashOnlyPolicy ==
    /\ RuleReachesArchivedRule
    /\ Deref(RuleParams.AllowOnlyAllowlistedHash)
    /\ ~Deref(RuleParams.EnforcePinHash)
    /\ ~IsSHA(RuleParsed.action.Ref)

\* every remote call made for the reference returned without an error
RuleLookupsSucceed ==
    \A i \in 1..Len(rule.out.calls) : ~CallErrored(rule.out.calls[i])

\* C36 as stated: under allow-only-allowlisted-hash without
\* enforce-pin-hash, a reference that is neither exempt nor allowlisted,
\* whose ref is not a SHA and whose lookups succeed (no call errors, and the
\* owner is found to be a user or a verified organization), is allowed
C36_TagAlwaysAllowed ==
    (/\ TagUnderHashOnlyPolicy
     /\ RuleLookupsSucceed
     /\ ~checkVerifiedOrg(RuleParsed.action.Owner, RuleParams, rule.rem).failed)
    => rule.out.err = Nil

\* C36: such a reference is allowed exactly when the archived rule and the
\* verified-organization rule pass, whatever the hash allowlist holds: the
\* hash allowlist is consulted for no rule (no tag lookup is made), and the
\* only violations are those of the archived and the organization rule,
\* at the start of the uses value
C36_HashOnlyPolicyIgnoresTags ==
    (TagUnderHashOnlyPolicy /\ RuleLookupsSucceed) =>
        /\ ReachesPinCheck <=> rule.out.err = Nil
        /\ \A i \in 1..Len(rule.out.calls) :
              rule.out.calls[i].op \notin {"ResolveFromHash", "ResolveFromTag"}
        /\ rule.out.err # Nil =>
              /\ rule.out.err.Kind \notin {KindUnpinned, KindShaNotAllowlisted}
              /\ RuleAtUsesPos

\* a tag reference is allowed under a policy whose hash allowlist has
\* entries, none of them for the reference's action
C36_Witness ==
    /\ TagUnderHashOnlyPolicy
    /\ RuleLookupsSucceed
    /\ ReachesPinCheck
    /\ RuleParams.HashAllowlist.m # <<>>
    /\ RuleHashEntries = <<>>
    /\ rule.out.err = Nil

\* the reference parses, its ref is not a SHA, and its owner is in the
\* creator allowlist or its repo-ID is in the action allowlist
ListedTagReference ==
    /\ RuleParses
    /\ ~IsPinnedBySHA(RuleParsed.action)
    /\ \/ SliceContains(RuleParams.CreatorAllowlist.items, RuleParsed.action.Owner)
       \/ SliceContains(RuleParams.ActionAllowlist.items, RepoID(RuleParsed.action))

\* the ref was resolved as a tag, once, and nothing else was looked up
ResolvedAsTag ==
    rule.out.calls = <<Call("ResolveFromTag", RuleParsed.action.Ref)>>

\* the outcome of the allowlist branch for a tag: ALLOW when the resolver
\* answers, a RuntimeError entry at the uses position when it fails
TagBranchOutcome ==
    IF rule.rem.fromTag.failed
    THEN /\ rule.out.err # Nil
         /\ rule.out.err.Kind = KindRuntimeError
         /\ RuleAtUsesPos
         /\ rule.out.err.Message = fmt_resolveTag \o rule.rem.fromTag.msg
    ELSE rule.out.err = Nil

\* C37 as stated: every creator- or action-allowlisted reference whose ref is
\* not a SHA is resolved as a tag, and is a RuntimeError entry at the uses
\* position when the resolution fails.
C37_ListedTagAlwaysResolved ==
    ListedTagReference => (ResolvedAsTag /\ TagBranchOutcome)

\* C37: a creator- or action-allowlisted reference whose ref is not a SHA and
\* which is not exempt as an official action is resolved as a tag, once, before
\* it is allowed: the outcome is ALLOW when the resolution succeeds and a
\* RuntimeError entry at the uses position when it fails.  When it is exempt
\* as an official action it is allowed without any lookup, whatever the
\* resolver would answer.
C37_ListedTagResolvedUnlessExempt ==
    ListedTagReference =>
        IF RuleOfficialExempt
        THEN rule.out.err = Nil /\ rule.out.calls = <<>>
        ELSE ResolvedAsTag /\ TagBranchOutcome

\* google-github-actions/auth@v2, allowlisted by its creator, with a resolver
\* that fails: a RuntimeError entry instead of ALLOW
C37_Witness ==
    /\ ListedTagReference
    /\ ~RuleOfficialExempt
    /\ rule.uses.Value = uses_gauth
    /\ RuleParams.CreatorAllowlist.items = <<str_googleGithubActions>>
    /\ rule.rem.fromTag.failed
    /\ ResolvedAsTag
    /\ rule.out.err # Nil
    /\ rule.out.err.Kind = KindRuntimeError
    /\ RuleAtUsesPos

(***************************************************************************)
(* Properties of ListWorkflows                                             *)
(***************************************************************************)

\* the argument lies in a project that has neither an actionarmor.yaml nor
\* an actionarmor.yml file, and whose workflows directory can be read
InProjectWithoutConfig(arg) ==
    /\ arg.at > 0
    /\ ProjectPool[arg.at].yaml # "file"
    /\ ProjectPool[arg.at].yml # "file"
    /\ ProjectPool[arg.at].listable

\* ListWorkflows returned an error at the i-th argument
FailedAt(i) == rule.state = "error" /\ rule.k = i

\* the loop went past the i-th argument
PassedArgument(i) == i < rule.k

\* the workflows ListWorkflows holds for the project of the argument all
\* have a nil Config
NilConfigFor(arg) ==
    \A p \in DOMAIN rule.wfInfoMap :
        rule.wfInfoMap[p].Project = ProjectPool[arg.at]
            => rule.wfInfoMap[p].Config = NilConfig

\* C38: a missing config file is no error for a file argument and for a
\* directory argument alike: the argument is passed without an error, and
\* the WorkflowInfo of a file argument is in the map with a nil Config.
C38_MissingConfigIsNoError ==
    \A i \in 1..Len(rule.paths) :
        (rule.paths[i].stat # "missing" /\ InProjectWithoutConfig(rule.paths[i])) =>
            /\ ~FailedAt(i)
            /\ PassedArgument(i) =>
                  /\ NilConfigFor(rule.paths[i])
                  /\ rule.paths[i].stat = "file" =>
                        rule.paths[i].path \in DOMAIN rule.wfInfoMap

\* the directory half of C38: a directory argument of a project without a
\* config file is passed without an error and its workflows have a nil Config
C38_DirectoryWithoutConfig ==
    \A i \in 1..Len(rule.paths) :
        (rule.paths[i].stat = "dir" /\ InProjectWithoutConfig(rule.paths[i])) =>
            /\ ~FailedAt(i)
            /\ PassedArgument(i) => NilConfigFor(rule.paths[i])

\* what the code does with a file argument of a project without a config
\* file: ListWorkflows returns toWorkflowInfo's error, which wraps
\* ErrConfigFileNotFound, and no WorkflowInfo
C38_FileWithoutConfigIsAnError ==
    \A i \in 1..Len(rule.paths) :
        (rule.paths[i].stat = "file" /\ InProjectWithoutConfig(rule.paths[i])) =>
            /\ ~PassedArgument(i)
            /\ rule.state # "done"
            /\ FailedAt(i) =>
                  /\ ErrorsIs(rule.err, "ErrConfigFileNotFound")
                  /\ rule.err.msg[1] = "failed to get a config file path: "
                  /\ rule.workflows = <<>>

\* a directory argument without a config file has been listed
C38_DirectoryListed ==
    /\ rule.state = "done"
    /\ \E i \in 1..Len(rule.paths) :
          /\ rule.paths[i].stat = "dir"
          /\ InProjectWithoutConfig(rule.paths[i])
    /\ rule.workflows # <<>>

====
